---- MODULE Spec2Model ----
(***************************************************************************)
(* A model of the user-mode Windows platform layer of the DevDriver core   *)
(* (ddcWinPlatform.cpp): the atomic integer operations, AtomicLock, Mutex   *)
(* and Thread (Start / Join / IsJoinable) together with the OS objects     *)
(* they are built on.  Each component has its own specification; the       *)
(* variables of the other components stay at their initial values.         *)
(***************************************************************************)
EXTENDS Integers, Sequences, FiniteSets, TLC

(***************************************************************************)
(* Bounds of the model.                                                    *)
(***************************************************************************)
NumLockThreads == 3
MaxLockRounds == 2
NumMutexThreads == 3
MaxMutexRounds == 2
NumAtomicThreads == 2
MaxAtomicCalls == 2
NumIncrementThreads == 3
IncrementsPerThread == 3
MaxThreadCalls == 5
NumEventThreads == 2
MaxEventCalls == 4
NumSemaphoreThreads == 2
MaxSemaphoreCalls == 4
MaxCount == 2
kThreadNameMaxLength == 3

(***************************************************************************)
(* Program constants.                                                      *)
(***************************************************************************)
MaxInt32 == 2147483647
MinInt32 == (-MaxInt32) - 1

VARIABLES
    m_lock,       \* AtomicLock::m_lock, 0 = unlocked, 1 = locked
    lpc,          \* position of each thread using the AtomicLock
    lrounds,      \* number of Lock/Unlock rounds each thread has completed
    guarded,      \* shared counter: +1 on entry to the guarded region, -1 on exit
    lockBug       \* the DD_ASSERT_REASON of AtomicLock::Unlock has fired

VARIABLES
    csOwner,      \* m_mutex.criticalSection: the owning thread, 0 when free
    csRecursion,  \* m_mutex.criticalSection: recursion count of the owner
    lockCount,    \* m_mutex.lockCount, the debug ownership counter
    mpc,          \* position of each thread using the Mutex
    mcount,       \* the local `count` of each thread's last Mutex::Lock()
    mrounds,      \* number of Lock/Unlock rounds each thread has completed
    mutexAssert   \* DD_ASSERT(count == 1) of Mutex::Lock has fired

VARIABLES
    counter,      \* a shared Atomic (32-bit) variable
    counter64,    \* a shared Atomic64 variable, as [hi, lo] 32-bit halves
    initial,      \* the values <<counter, counter64>> started with
    acalls,       \* number of atomic calls each thread has completed
    alimit,       \* number of atomic calls each thread performs
    alast,        \* the last completed call: operation, operand, value before,
                  \* value stored, value returned
    incOnly,      \* every call so far was the 32-bit AtomicIncrement
    incReturns,   \* while incOnly: the values returned, in order of the updates
    atrap         \* the call whose signed negation overflowed and trapped, if any

VARIABLES
    hThread,      \* Thread::hThread, 0 = NULL, otherwise the handle of an execution unit
    pFnFunction,  \* Thread::pFnFunction
    pParameter,   \* Thread::pParameter
    onExit,       \* Thread::onExit, the manual-reset completion event: TRUE = signaled
    opc,          \* position of the owner of the Thread object
    ocall,        \* the owner's current or last call and its arguments
    oret,         \* what that call returned, "pending" while it runs
    ncalls,       \* number of calls the owner has made
    unit,         \* state of the execution unit behind each handle
    invoked,      \* function and parameter each execution unit called
    released,     \* handles that a CloseHandle has released
    closeFailed,  \* handles on which a CloseHandle has failed
    doubleRelease,\* CloseHandle was called on a handle already released
    jops,         \* OS calls and resets the current or last Join has made
    startedNotJoined, \* a Start returned Success and no Join returned Success since
    osFaulty,     \* the OS calls may fail
    crashed,      \* an execution unit called a null entry function
    startArgs,    \* function and parameter of the Start that created each unit
    joinTimedOut  \* handles on which a Join has returned NotReady

VARIABLES
    naming,       \* what the host provides: "none" = GetModuleHandle fails,
                  \* "nofunc" = no SetThreadDescription, "yes" = both succeed
    nlast         \* the last Thread::SetNameRaw call

VARIABLES
    waitFaulty,   \* WaitForSingleObject may report a status other than
                  \* signaled or timeout
    lastWait      \* the last WaitObject call: OS status and Result

VARIABLES
    m_event,      \* Event::m_event, 0 = NULL, otherwise the handle of the event
    eventState,   \* the kernel event object behind m_event: TRUE = signaled
    epc,          \* position of each thread using the Event
    etimeout,     \* the timeout of each thread's current Event::Wait
    ecalls,       \* number of Event calls completed
    elast,        \* the last completed Event call, at first the constructor:
                  \* what the OS call returned and what the caller was given
    eprev,        \* the operation of the Event call completed before elast
    erequested,   \* the state the last of constructor, Signal, Clear asked for
    etimedOut     \* threads whose Event::Wait has returned NotReady

VARIABLES
    m_semaphore,  \* Semaphore::m_semaphore, 0 = NULL, otherwise the handle
    initialCount, \* the constructor's initialCount
    maxCount,     \* the constructor's maxCount
    count,        \* count of the kernel semaphore object behind m_semaphore
    spc,          \* position of each thread using the Semaphore
    stimeout,     \* the timeout of each thread's current Semaphore::Wait
    held,         \* successful Waits of each thread it has not signaled back
    disciplined,  \* threads Signal only after a successful Wait of their own
    scalls,       \* number of Semaphore calls completed
    slast,        \* the last completed Semaphore call, at first the constructor
    stimedOut     \* threads whose Semaphore::Wait has returned NotReady

lockVars == <<m_lock, lpc, lrounds, guarded, lockBug>>
mutexVars == <<csOwner, csRecursion, lockCount, mpc, mcount, mrounds, mutexAssert>>

atomicVars == <<counter, counter64, initial, acalls, alimit, alast, incOnly, incReturns,
                atrap>>

threadVars == <<hThread, pFnFunction, pParameter, onExit, opc, ocall, oret, ncalls, unit,
                invoked, released, closeFailed, doubleRelease, jops, startedNotJoined,
                osFaulty, crashed, startArgs, joinTimedOut>>

nameVars == <<naming, nlast>>

waitVars == <<waitFaulty, lastWait>>

eventVars == <<m_event, eventState, epc, etimeout, ecalls, elast, eprev, erequested,
               etimedOut>>

semaphoreVars == <<m_semaphore, initialCount, maxCount, count, spc, stimeout, held,
                   disciplined, scalls, slast, stimedOut>>

vars == <<lockVars, mutexVars, atomicVars, threadVars, nameVars, waitVars, eventVars,
          semaphoreVars>>

\* The variables of the components an action does not belong to.
notLock == <<nameVars, mutexVars, atomicVars, threadVars, waitVars, eventVars, semaphoreVars>>
notMutex == <<nameVars, lockVars, atomicVars, threadVars, waitVars, eventVars, semaphoreVars>>
notAtomic == <<nameVars, lockVars, mutexVars, threadVars, waitVars, eventVars, semaphoreVars>>
notThread == <<nameVars, lockVars, mutexVars, atomicVars, waitFaulty, eventVars, semaphoreVars>>
notEvent == <<nameVars, lockVars, mutexVars, atomicVars, threadVars, waitFaulty, semaphoreVars>>
notSemaphore == <<nameVars, lockVars, mutexVars, atomicVars, threadVars, waitFaulty, eventVars>>
notName == <<lockVars, mutexVars, atomicVars, threadVars, waitVars, eventVars, semaphoreVars>>

LockThreads == 1 .. NumLockThreads
MutexThreads == 1 .. NumMutexThreads
AtomicThreads == 1 .. NumAtomicThreads
IncrementThreads == 1 .. NumIncrementThreads
Handles == 1 .. MaxThreadCalls
EventThreads == 1 .. NumEventThreads
SemaphoreThreads == 1 .. NumSemaphoreThreads

(***************************************************************************)
(* 32-bit two's-complement arithmetic (Atomic is a 32-bit long).           *)
(***************************************************************************)
\* a + b modulo 2^32, as a signed 32-bit value.  The sum is formed without
\* leaving the 32-bit range: when it would, 2^32 is taken off (or added) in
\* two halves first.
Add32(a, b) ==
    IF a > 0 /\ b > 0 /\ a > MaxInt32 - b
        THEN ((a - MaxInt32) - 1) + ((b - MaxInt32) - 1)
    ELSE IF a < 0 /\ b < 0 /\ a < MinInt32 - b
        THEN ((a + MaxInt32) + 1) + ((b + MaxInt32) + 1)
    ELSE a + b

\* InterlockedIncrement / InterlockedDecrement / InterlockedAdd: one
\* indivisible read-modify-write that returns the resulting value.
InterlockedAdd(v, n) == [new |-> Add32(v, n), ret |-> Add32(v, n)]
InterlockedIncrement(v) == [new |-> Add32(v, 1), ret |-> Add32(v, 1)]
InterlockedDecrement(v) == [new |-> Add32(v, -1), ret |-> Add32(v, -1)]

\* The 32-bit atomic operations; static_cast<int32> of a long is the
\* identity.
AtomicIncrement(v) == InterlockedIncrement(v)
AtomicDecrement(v) == InterlockedDecrement(v)
\* An add built on InterlockedExchangeAdd, which returns the value the
\* variable held before the addition.
AtomicAdd_ExchangeAdd(v, num) == [new |-> Add32(v, num), ret |-> v]
AtomicAdd(v, num) == InterlockedAdd(v, num)

\* -static_cast<long>(num) overflows when num is the minimum value of a long:
\* the behaviour is undefined.  The negate instruction wraps; a build that
\* checks signed overflow traps.
NegationOverflows(num) == num = MinInt32

\* -static_cast<long>(num) as the negate instruction computes it: the
\* minimum value yields the minimum value again.
NegateLong(num) == IF num = MinInt32 THEN MinInt32 ELSE -num

AtomicSubtract(v, num) == InterlockedAdd(v, NegateLong(num))

(***************************************************************************)
(* 64-bit two's-complement arithmetic.  A 64-bit value is the record        *)
(* [hi, lo] of its two 32-bit halves, each held as a signed 32-bit pattern. *)
(***************************************************************************)
\* The 64-bit value of a 32-bit integer (sign extension).
Int64(n) == [hi |-> IF n < 0 THEN -1 ELSE 0, lo |-> n]

MaxInt64 == [hi |-> MaxInt32, lo |-> -1]
MinInt64 == [hi |-> MinInt32, lo |-> 0]

\* x < y for the 32-bit patterns x, y read as unsigned numbers.
ULess32(x, y) == IF (x < 0) = (y < 0) THEN x < y ELSE y < 0

\* a + b modulo 2^64: the low halves are added, and the carry out of them
\* goes into the sum of the high halves.
Add64(a, b) ==
    LET lo == Add32(a.lo, b.lo)
        carry == IF ULess32(lo, a.lo) THEN 1 ELSE 0
    IN [hi |-> Add32(Add32(a.hi, b.hi), carry), lo |-> lo]

\* -static_cast<LONG64>(num) overflows when num is the minimum value.
NegationOverflows64(num) == num = MinInt64

\* -static_cast<LONG64>(num) as the negate instruction computes it:
\* complement and add one; the minimum value yields itself.
NegateLong64(num) == Add64([hi |-> (-1) - num.hi, lo |-> (-1) - num.lo], Int64(1))

InterlockedAdd64(v, n) == [new |-> Add64(v, n), ret |-> Add64(v, n)]
InterlockedIncrement64(v) == [new |-> Add64(v, Int64(1)), ret |-> Add64(v, Int64(1))]
InterlockedDecrement64(v) == [new |-> Add64(v, Int64(-1)), ret |-> Add64(v, Int64(-1))]

AtomicIncrement64(v) == InterlockedIncrement64(v)
AtomicDecrement64(v) == InterlockedDecrement64(v)
AtomicAdd64(v, num) == InterlockedAdd64(v, num)
AtomicSubtract64(v, num) == InterlockedAdd64(v, NegateLong64(num))

(***************************************************************************)
(* Threads calling the atomic operations on the shared variables.          *)
(***************************************************************************)
\* Starting values and operands: small values and the ends of the range.
InitialValues ==
    { <<0, Int64(0)>>,
      <<-1, [hi |-> 0, lo |-> -1]>>,
      <<MaxInt32 - 1, Add64(MaxInt64, Int64(-1))>>,
      <<MinInt32 + 1, Add64(MinInt64, Int64(1))>> }
Operands == {1, -1, MinInt32}
Operands64 == {Int64(1), Int64(-1), MinInt64}

NoCall == [op |-> "none"]

AtomicInit(values, threads, calls) ==
    /\ initial \in values
    /\ counter = initial[1]
    /\ counter64 = initial[2]
    /\ acalls = [t \in threads |-> 0]
    /\ alimit = calls
    /\ alast = NoCall
    /\ incOnly = TRUE
    /\ incReturns = << >>
    /\ atrap = NoCall

\* Thread t completes one call on the 32-bit variable; r is what the
\* operation stores and returns.
Call32(t, op, num, r) ==
    /\ acalls[t] < alimit /\ atrap = NoCall
    /\ counter' = r.new
    /\ acalls' = [acalls EXCEPT ![t] = @ + 1]
    /\ alast' = [op |-> op, num |-> num, old |-> counter, new |-> counter', ret |-> r.ret]
    /\ incOnly' = (incOnly /\ op = "Increment")
    /\ incReturns' = IF incOnly' THEN Append(incReturns, r.ret) ELSE << >>
    /\ UNCHANGED <<counter64, initial, alimit, atrap>>
    /\ UNCHANGED notAtomic

\* Thread t completes one call on the 64-bit variable.
Call64(t, op, num, r) ==
    /\ acalls[t] < alimit /\ atrap = NoCall
    /\ counter64' = r.new
    /\ acalls' = [acalls EXCEPT ![t] = @ + 1]
    /\ alast' = [op |-> op, num |-> num, old |-> counter64, new |-> counter64', ret |-> r.ret]
    /\ incOnly' = FALSE
    /\ incReturns' = << >>
    /\ UNCHANGED <<counter, initial, alimit, atrap>>
    /\ UNCHANGED notAtomic

\* Thread t's call traps on a signed overflow while it evaluates its
\* operand: nothing is stored or returned and the process ends.
CallTraps(t, op, num, old) ==
    /\ acalls[t] < alimit /\ atrap = NoCall
    /\ atrap' = [op |-> op, num |-> num, old |-> old]
    /\ UNCHANGED <<counter, counter64, initial, acalls, alimit, alast, incOnly, incReturns>>
    /\ UNCHANGED notAtomic

\* An increment that is not indivisible: it adds one to the value the
\* variable held before the previous call's update, and so loses that update.
Call_AtomicIncrement_Divisible(t) ==
    LET read == IF alast = NoCall THEN counter ELSE alast.old
    IN Call32(t, "Increment", 1, [new |-> Add32(read, 1), ret |-> Add32(read, 1)])
Call_AtomicIncrement(t) == Call32(t, "Increment", 1, AtomicIncrement(counter))
Call_AtomicDecrement(t) == Call32(t, "Decrement", 1, AtomicDecrement(counter))
Call_AtomicAdd(t) == \E num \in Operands : Call32(t, "Add", num, AtomicAdd(counter, num))
Call_AtomicSubtract(t) ==
    \E num \in Operands :
        \/ Call32(t, "Subtract", num, AtomicSubtract(counter, num))
        \/ NegationOverflows(num) /\ CallTraps(t, "Subtract", num, counter)
Call_AtomicIncrement64(t) == Call64(t, "Increment64", Int64(1), AtomicIncrement64(counter64))
Call_AtomicDecrement64(t) == Call64(t, "Decrement64", Int64(1), AtomicDecrement64(counter64))
Call_AtomicAdd64(t) == \E num \in Operands64 : Call64(t, "Add64", num, AtomicAdd64(counter64, num))
Call_AtomicSubtract64(t) ==
    \E num \in Operands64 :
        \/ Call64(t, "Subtract64", num, AtomicSubtract64(counter64, num))
        \/ NegationOverflows64(num) /\ CallTraps(t, "Subtract64", num, counter64)

(***************************************************************************)
(* Interlocked primitives of the OS.                                       *)
(***************************************************************************)
\* InterlockedCompareExchange(dest, exchange, comparand): one indivisible
\* step; the word becomes exchange when it equals comparand, and the value
\* it held before is returned.
InterlockedCompareExchange(word, exchange, comparand) ==
    [new |-> IF word = comparand THEN exchange ELSE word, old |-> word]

(***************************************************************************)
(* AtomicLock                                                              *)
(***************************************************************************)
LockInit ==
    /\ m_lock = 0
    /\ lpc = [t \in LockThreads |-> "idle"]
    /\ lrounds = [t \in LockThreads |-> 0]
    /\ guarded = 0
    /\ lockBug = FALSE

\* while (InterlockedCompareExchangeAcquire(&m_lock, 1, 0) == 1): the loop
\* is left, and Lock() returns, when the exchange did not return 1.
LockLoopExit_Inverted(old) == old /= 0
LockLoopExit(old) == old /= 1

\* A thread calls AtomicLock::Lock().
AtomicLock_Call(t) ==
    /\ lpc[t] = "idle"
    /\ lrounds[t] < MaxLockRounds
    /\ lpc' = [lpc EXCEPT ![t] = "lock_cas"]
    /\ UNCHANGED <<m_lock, lrounds, guarded, lockBug>>
    /\ UNCHANGED notLock

\* A thread that has completed its counted rounds calls AtomicLock::Lock()
\* once more; its rounds are no longer counted.
AtomicLock_Call_Again(t) ==
    /\ lpc[t] = "idle"
    /\ lrounds[t] = MaxLockRounds
    /\ lpc' = [lpc EXCEPT ![t] = "lock_cas"]
    /\ UNCHANGED <<m_lock, lrounds, guarded, lockBug>>
    /\ UNCHANGED notLock

\* One evaluation of the outer loop condition of AtomicLock::Lock().
AtomicLock_Lock(t) ==
    /\ lpc[t] = "lock_cas"
    /\ LET r == InterlockedCompareExchange(m_lock, 1, 0) IN
        /\ m_lock' = r.new
        /\ lpc' = [lpc EXCEPT ![t] = IF LockLoopExit(r.old) THEN "locked" ELSE "lock_spin"]
    /\ UNCHANGED <<lrounds, guarded, lockBug>>
    /\ UNCHANGED notLock

\* One evaluation of the inner loop condition: while (m_lock != 0) {}.
AtomicLock_Spin(t) ==
    /\ lpc[t] = "lock_spin"
    /\ lpc' = [lpc EXCEPT ![t] = IF m_lock /= 0 THEN "lock_spin" ELSE "lock_cas"]
    /\ UNCHANGED <<m_lock, lrounds, guarded, lockBug>>
    /\ UNCHANGED notLock

\* The guarded region: the shared counter is incremented on entry ...
Guarded_Enter(t) ==
    /\ lpc[t] = "locked"
    /\ guarded' = guarded + 1
    /\ lpc' = [lpc EXCEPT ![t] = "inside"]
    /\ UNCHANGED <<m_lock, lrounds, lockBug>>
    /\ UNCHANGED notLock

\* ... and decremented on exit, after which the thread calls Unlock().
Guarded_Exit(t) ==
    /\ lpc[t] = "inside"
    /\ guarded' = guarded - 1
    /\ lpc' = [lpc EXCEPT ![t] = "unlock"]
    /\ UNCHANGED <<m_lock, lrounds, lockBug>>
    /\ UNCHANGED notLock

\* AtomicLock::Unlock: if (InterlockedCompareExchangeRelease(&m_lock, 0, 1) == 0)
\* the DD_ASSERT_REASON fires.
UnlockFoundUnlocked_Never(old) == FALSE
UnlockFoundUnlocked(old) == old = 0

\* AtomicLock::Unlock().
AtomicLock_Unlock(t) ==
    /\ lpc[t] = "unlock"
    /\ LET r == InterlockedCompareExchange(m_lock, 0, 1) IN
        /\ m_lock' = r.new
        /\ lockBug' = (lockBug \/ UnlockFoundUnlocked(r.old))
    /\ lpc' = [lpc EXCEPT ![t] = "idle"]
    /\ lrounds' = [lrounds EXCEPT ![t] = IF @ < MaxLockRounds THEN @ + 1 ELSE @]
    /\ UNCHANGED guarded
    /\ UNCHANGED notLock

\* AtomicLock::Unlock() called by a thread that has not called Lock().
AtomicLock_Unlock_Unheld(t) ==
    /\ lpc[t] = "idle"
    /\ lrounds[t] < MaxLockRounds
    /\ LET r == InterlockedCompareExchange(m_lock, 0, 1) IN
        /\ m_lock' = r.new
        /\ lockBug' = (lockBug \/ UnlockFoundUnlocked(r.old))
    /\ lrounds' = [lrounds EXCEPT ![t] = @ + 1]
    /\ UNCHANGED <<lpc, guarded>>
    /\ UNCHANGED notLock

\* Threads between the return of Lock() and the call of Unlock().
LockHolders == {t \in LockThreads : lpc[t] \in {"locked", "inside", "unlock"}}

(***************************************************************************)
(* Mutex                                                                   *)
(***************************************************************************)
MutexInit ==
    /\ csOwner = 0
    /\ csRecursion = 0
    /\ lockCount = 0
    /\ mpc = [t \in MutexThreads |-> "idle"]
    /\ mcount = [t \in MutexThreads |-> 0]
    /\ mrounds = [t \in MutexThreads |-> 0]
    /\ mutexAssert = FALSE

\* EnterCriticalSection returns to thread t when the critical section is free
\* or already owned by t (Windows critical sections are recursive).
CanEnterCriticalSection(t) == csOwner = 0 \/ csOwner = t

\* A thread calls Mutex::Lock().
Mutex_Call(t) ==
    /\ mpc[t] = "idle"
    /\ mrounds[t] < MaxMutexRounds
    /\ mpc' = [mpc EXCEPT ![t] = "lock_enter"]
    /\ UNCHANGED <<csOwner, csRecursion, lockCount, mcount, mrounds, mutexAssert>>
    /\ UNCHANGED notMutex

\* The thread that holds the mutex calls Mutex::Lock() again before its
\* Unlock().
Mutex_Call_Recursive(t) ==
    /\ mpc[t] = "held"
    /\ mrounds[t] + csRecursion < MaxMutexRounds
    /\ mpc' = [mpc EXCEPT ![t] = "lock_enter"]
    /\ UNCHANGED <<csOwner, csRecursion, lockCount, mcount, mrounds, mutexAssert>>
    /\ UNCHANGED notMutex

\* A Lock() that goes on without owning the critical section.
Mutex_Lock_Enter_NoWait(t) ==
    /\ mpc[t] = "lock_enter"
    /\ IF CanEnterCriticalSection(t)
         THEN csOwner' = t /\ csRecursion' = csRecursion + 1
         ELSE UNCHANGED <<csOwner, csRecursion>>
    /\ mpc' = [mpc EXCEPT ![t] = "lock_count"]
    /\ UNCHANGED <<lockCount, mcount, mrounds, mutexAssert>>
    /\ UNCHANGED notMutex

\* Mutex::Lock(): EnterCriticalSection(&m_mutex.criticalSection) blocks until
\* the thread owns the critical section.
Mutex_Lock_Enter(t) ==
    /\ mpc[t] = "lock_enter"
    /\ CanEnterCriticalSection(t)
    /\ csOwner' = t
    /\ csRecursion' = csRecursion + 1
    /\ mpc' = [mpc EXCEPT ![t] = "lock_count"]
    /\ UNCHANGED <<lockCount, mcount, mrounds, mutexAssert>>
    /\ UNCHANGED notMutex

\* Mutex::Lock() built with NDEBUG: nothing follows EnterCriticalSection.
Mutex_Lock_Count_NoDebug(t) ==
    /\ mpc[t] = "lock_count"
    /\ mpc' = [mpc EXCEPT ![t] = "held"]
    /\ UNCHANGED <<csOwner, csRecursion, lockCount, mcount, mrounds, mutexAssert>>
    /\ UNCHANGED notMutex

\* Mutex::Lock(), debug build: count = AtomicIncrement(&m_mutex.lockCount);
\* DD_ASSERT(count == 1); then Lock() returns.
Mutex_Lock_Count(t) ==
    /\ mpc[t] = "lock_count"
    /\ LET r == AtomicIncrement(lockCount) IN
        /\ lockCount' = r.new
        /\ mcount' = [mcount EXCEPT ![t] = r.ret]
        /\ mutexAssert' = (mutexAssert \/ r.ret /= 1)
    /\ mpc' = [mpc EXCEPT ![t] = "held"]
    /\ UNCHANGED <<csOwner, csRecursion, mrounds>>
    /\ UNCHANGED notMutex

\* Mutex::Unlock(), debug build: AtomicDecrement(&m_mutex.lockCount).
Mutex_Unlock_Count(t) ==
    /\ mpc[t] = "held"
    /\ lockCount' = AtomicDecrement(lockCount).new
    /\ mpc' = [mpc EXCEPT ![t] = "unlock_leave"]
    /\ UNCHANGED <<csOwner, csRecursion, mcount, mrounds, mutexAssert>>
    /\ UNCHANGED notMutex

\* Mutex::Unlock(): LeaveCriticalSection(&m_mutex.criticalSection).  The
\* critical section is released when its recursion count returns to zero;
\* until then the thread still holds the mutex.
Mutex_Unlock_Leave(t) ==
    /\ mpc[t] = "unlock_leave"
    /\ csRecursion' = csRecursion - 1
    /\ csOwner' = IF csRecursion = 1 THEN 0 ELSE csOwner
    /\ mpc' = [mpc EXCEPT ![t] = IF csRecursion = 1 THEN "idle" ELSE "held"]
    /\ mrounds' = [mrounds EXCEPT ![t] = @ + 1]
    /\ UNCHANGED <<lockCount, mcount, mutexAssert>>
    /\ UNCHANGED notMutex

\* Threads between acquiring the critical section in Lock() and leaving it
\* in Unlock().
MutexHolders == {t \in MutexThreads : mpc[t] \in {"lock_count", "held", "unlock_leave"}}

(***************************************************************************)
(* Thread                                                                  *)
(***************************************************************************)
EntryFunctions == {"null", "fnA"}
Parameters == {"p1", "p2"}
Timeouts == {"finite", "infinite"}

\* The statuses WaitForSingleObject can report on an object, given whether
\* the object is signaled and the timeout; none means the call blocks.
WaitForSingleObject(signaled, timeout) ==
    (IF signaled THEN {"WAIT_OBJECT_0"}
     ELSE IF timeout /= "infinite" THEN {"WAIT_TIMEOUT"} ELSE {})
    \cup (IF waitFaulty THEN {"WAIT_FAILED", "WAIT_ABANDONED", "unknown"} ELSE {})

\* A WaitObject whose result starts as Success instead of Error.
WaitObject_StartsAsSuccess(status) ==
    CASE status = "WAIT_OBJECT_0" -> "Success"
      [] status = "WAIT_TIMEOUT" -> "NotReady"
      [] OTHER -> "Success"

\* A WaitObject whose WAIT_TIMEOUT case falls through to the case above it.
WaitObject_TimeoutSucceeds(status) ==
    CASE status = "WAIT_OBJECT_0" -> "Success"
      [] status = "WAIT_TIMEOUT" -> "Success"
      [] OTHER -> "Error"

\* WaitObject: the status of WaitForSingleObject as a Result.
WaitObject(status) ==
    CASE status = "WAIT_OBJECT_0" -> "Success"
      [] status = "WAIT_TIMEOUT" -> "NotReady"
      [] OTHER -> "Error"

\* The handles CreateThread has returned so far.
Created == {h \in Handles : unit[h] /= "none"}

\* The kernel object of an execution unit is signaled once it has terminated.
Terminated(h) == unit[h] = "terminated"

\* The statuses a zero-timeout wait on thread handle h can report; a wait on
\* NULL or on a released handle fails.
WaitOnThreadHandle(h) ==
    IF h \in Created \ released
        THEN WaitForSingleObject(Terminated(h), "zero")
        ELSE {"WAIT_FAILED"}

ThreadInit(faulty) ==
    /\ hThread = 0
    /\ pFnFunction = "null"
    /\ pParameter = "null"
    /\ onExit = FALSE
    /\ opc = "idle"
    /\ ocall = [op |-> "none"]
    /\ oret = "none"
    /\ ncalls = 0
    /\ unit = [h \in Handles |-> "none"]
    /\ invoked = [h \in Handles |-> << >>]
    /\ released = {}
    /\ closeFailed = {}
    /\ doubleRelease = FALSE
    /\ jops = {}
    /\ startedNotJoined = FALSE
    /\ osFaulty = faulty
    /\ crashed = FALSE
    /\ startArgs = [h \in Handles |-> << >>]
    /\ joinTimedOut = {}

\* Thread::IsJoinable()
IsJoinable == hThread /= 0

\* Thread::Start: if ((hThread == NULL) && (pFnThreadFunc != nullptr))
StartAllowed_NoHandleCheck(fn) == fn /= "null"
StartAllowed(fn) == hThread = 0 /\ fn /= "null"

\* Thread::Start: result is Success only if (hThread != NULL) after CreateThread.
StartResult_Unchecked(h) == "Success"
StartResult(h) == IF h /= 0 THEN "Success" ELSE "Error"

\* What CreateThread can return: the handle of a new execution unit, or
\* NULL when the OS fails to create one.
CreateThread ==
    (IF ncalls < MaxThreadCalls THEN {Cardinality(Created) + 1} ELSE {})
    \cup (IF osFaulty THEN {0} ELSE {})

\* A Start that stores the function and the parameter before it tests
\* whether the object is already started.
Thread_Start_StoresFirst(fn, param) ==
    /\ opc = "idle" /\ ~crashed
    /\ ncalls < MaxThreadCalls
    /\ ncalls' = ncalls + 1
    /\ ocall' = [op |-> "Start", fn |-> fn, param |-> param]
    /\ pParameter' = param
    /\ pFnFunction' = fn
    /\ IF StartAllowed(fn)
         THEN \E h \in CreateThread :
                /\ hThread' = h
                /\ unit' = IF h /= 0 THEN [unit EXCEPT ![h] = "created"] ELSE unit
                /\ oret' = StartResult(h)
         ELSE /\ oret' = "Error"
              /\ UNCHANGED <<hThread, unit>>
    /\ startedNotJoined' = (startedNotJoined \/ oret' = "Success")
    /\ startArgs' = IF oret' = "Success"
                        THEN [startArgs EXCEPT ![hThread'] = <<fn, param>>]
                        ELSE startArgs
    /\ UNCHANGED <<onExit, opc, invoked, released, closeFailed, doubleRelease, jops,
                   osFaulty, crashed>>
    /\ UNCHANGED <<joinTimedOut, lastWait>>
    /\ UNCHANGED notThread

\* Thread::Start(pFnThreadFunc, pThreadParameter), called by the owner.  The
\* function and parameter are stored before CreateThread and the new unit
\* never reads hThread, so the whole call is one step for the new unit.
Thread_Start(fn, param) ==
    /\ opc = "idle" /\ ~crashed
    /\ ncalls < MaxThreadCalls
    /\ ncalls' = ncalls + 1
    /\ ocall' = [op |-> "Start", fn |-> fn, param |-> param]
    /\ IF StartAllowed(fn)
         THEN \E h \in CreateThread :
                /\ pParameter' = param
                /\ pFnFunction' = fn
                /\ hThread' = h
                /\ unit' = IF h /= 0 THEN [unit EXCEPT ![h] = "created"] ELSE unit
                /\ oret' = StartResult(h)
         ELSE /\ oret' = "Error"
              /\ UNCHANGED <<hThread, pFnFunction, pParameter, unit>>
    /\ startedNotJoined' = (startedNotJoined \/ oret' = "Success")
    /\ startArgs' = IF oret' = "Success"
                        THEN [startArgs EXCEPT ![hThread'] = <<fn, param>>]
                        ELSE startArgs
    /\ UNCHANGED <<onExit, opc, invoked, released, closeFailed, doubleRelease, jops,
                   osFaulty, crashed>>
    /\ UNCHANGED <<joinTimedOut, lastWait>>
    /\ UNCHANGED notThread

\* Thread::Join: result = IsJoinable() ? Result::Success : Result::Error.
JoinInitialResult_Unchecked == "Success"
JoinInitialResult == IF IsJoinable THEN "Success" ELSE "Error"

\* Thread::Join(timeoutInMs), called by the owner: the IsJoinable() test.
\* On an object that is not joinable every later block is skipped and Error
\* is returned.
Thread_Join_Call(timeout) ==
    /\ opc = "idle" /\ ~crashed
    /\ ncalls < MaxThreadCalls
    /\ ncalls' = ncalls + 1
    /\ ocall' = [op |-> "Join", timeout |-> timeout]
    /\ jops' = {}
    /\ IF JoinInitialResult = "Success"
         THEN opc' = "join_alive" /\ oret' = "pending"
         ELSE opc' = "idle" /\ oret' = "Error"
    /\ UNCHANGED <<hThread, pFnFunction, pParameter, onExit, unit, invoked, released,
                   closeFailed, doubleRelease, startedNotJoined, osFaulty, crashed>>
    /\ UNCHANGED <<startArgs, joinTimedOut, lastWait>>
    /\ UNCHANGED notThread

\* Thread::Join: isThreadAlive = (WaitObject(hThread, 0) == Result::NotReady).
\* Only a live thread makes Join wait on onExit; otherwise result stays
\* Success and the handle is closed next.
Thread_Join_Alive ==
    /\ opc = "join_alive" /\ ~crashed
    /\ \E status \in WaitOnThreadHandle(hThread) :
        LET isThreadAlive == (WaitObject(status) = "NotReady")
        IN /\ opc' = IF isThreadAlive THEN "join_wait" ELSE "join_close"
           /\ lastWait' = [status |-> status, result |-> WaitObject(status)]
    /\ jops' = jops \cup {"WaitObject(hThread)"}
    /\ UNCHANGED <<hThread, pFnFunction, pParameter, onExit, ocall, oret, ncalls, unit,
                   invoked, released, closeFailed, doubleRelease, startedNotJoined,
                   osFaulty, crashed>>
    /\ UNCHANGED <<startArgs, joinTimedOut>>
    /\ UNCHANGED notThread

\* A Join that polls onExit instead of waiting for timeoutInMs.
Thread_Join_Wait_Poll ==
    /\ opc = "join_wait" /\ ~crashed
    /\ \E status \in WaitForSingleObject(onExit, "zero") :
        LET result == WaitObject(status)
        IN /\ opc' = IF result = "Success" THEN "join_close" ELSE "idle"
           /\ oret' = IF result = "Success" THEN "pending" ELSE result
           /\ lastWait' = [status |-> status, result |-> result]
           /\ joinTimedOut' = IF result = "NotReady"
                                  THEN joinTimedOut \cup {hThread}
                                  ELSE joinTimedOut
    /\ jops' = jops \cup {"onExit.Wait"}
    /\ UNCHANGED <<hThread, pFnFunction, pParameter, onExit, ocall, ncalls, unit,
                   invoked, released, closeFailed, doubleRelease, startedNotJoined,
                   osFaulty, crashed>>
    /\ UNCHANGED startArgs
    /\ UNCHANGED notThread

\* A Join that erases the handle whenever the wait on onExit did not succeed.
Thread_Join_Wait_ErasesOnTimeout ==
    /\ opc = "join_wait" /\ ~crashed
    /\ \E status \in WaitForSingleObject(onExit, ocall.timeout) :
        LET result == WaitObject(status)
        IN /\ opc' = IF result = "Success" THEN "join_close" ELSE "idle"
           /\ oret' = IF result = "Success" THEN "pending" ELSE result
           /\ hThread' = IF result = "Success" THEN hThread ELSE 0
           /\ lastWait' = [status |-> status, result |-> result]
           /\ joinTimedOut' = IF result = "NotReady"
                                  THEN joinTimedOut \cup {hThread}
                                  ELSE joinTimedOut
    /\ jops' = jops \cup {"onExit.Wait"}
    /\ UNCHANGED <<pFnFunction, pParameter, onExit, ocall, ncalls, unit,
                   invoked, released, closeFailed, doubleRelease, startedNotJoined,
                   osFaulty, crashed>>
    /\ UNCHANGED startArgs
    /\ UNCHANGED notThread

\* Thread::Join: result = onExit.Wait(timeoutInMs).  Event::Wait is
\* WaitObject(m_event, timeoutInMs) and leaves the event as it is.  A result
\* other than Success skips the two later blocks and is returned.
Thread_Join_Wait ==
    /\ opc = "join_wait" /\ ~crashed
    /\ \E status \in WaitForSingleObject(onExit, ocall.timeout) :
        LET result == WaitObject(status)
        IN /\ opc' = IF result = "Success" THEN "join_close" ELSE "idle"
           /\ oret' = IF result = "Success" THEN "pending" ELSE result
           /\ lastWait' = [status |-> status, result |-> result]
           /\ joinTimedOut' = IF result = "NotReady"
                                  THEN joinTimedOut \cup {hThread}
                                  ELSE joinTimedOut
    /\ jops' = jops \cup {"onExit.Wait"}
    /\ UNCHANGED <<hThread, pFnFunction, pParameter, onExit, ocall, ncalls, unit,
                   invoked, released, closeFailed, doubleRelease, startedNotJoined,
                   osFaulty, crashed>>
    /\ UNCHANGED startArgs
    /\ UNCHANGED notThread

\* What CloseHandle can return on handle h: nonzero when it releases the
\* handle, 0 when it fails (always on a handle already released).
CloseHandle(h) ==
    (IF h \notin released THEN {1} ELSE {})
    \cup (IF osFaulty \/ h \in released THEN {0} ELSE {})

\* Thread::Join: the block after a failed CloseHandle, were it to erase the
\* handle all the same.
JoinCloseFailed_Erase ==
    /\ opc' = "idle"
    /\ oret' = "Error"
    /\ hThread' = 0
    /\ pFnFunction' = "null"
    /\ pParameter' = "null"
    /\ onExit' = FALSE

\* Thread::Join: if (CloseHandle(hThread) == 0) result = Result::Error; the
\* last block is then skipped and Error is returned.
JoinCloseFailed ==
    /\ opc' = "idle"
    /\ oret' = "Error"
    /\ UNCHANGED <<hThread, pFnFunction, pParameter, onExit>>

\* Thread::Join: CloseHandle(hThread) once the wait has succeeded.
Thread_Join_Close ==
    /\ opc = "join_close" /\ ~crashed
    /\ \E ok \in CloseHandle(hThread) :
        /\ IF ok /= 0
             THEN /\ opc' = "join_reset"
                  /\ UNCHANGED <<oret, hThread, pFnFunction, pParameter, onExit>>
             ELSE JoinCloseFailed
        /\ released' = IF ok /= 0 THEN released \cup {hThread} ELSE released
        /\ closeFailed' = IF ok = 0 THEN closeFailed \cup {hThread} ELSE closeFailed
    /\ doubleRelease' = (doubleRelease \/ hThread \in released)
    /\ jops' = jops \cup {"CloseHandle"}
    /\ UNCHANGED <<ocall, ncalls, unit, invoked, startedNotJoined, osFaulty, crashed>>
    /\ UNCHANGED <<startArgs, joinTimedOut, lastWait>>
    /\ UNCHANGED notThread

\* A Reset() that leaves the completion event as it is.
Reset_KeepsEvent ==
    /\ hThread' = 0
    /\ pFnFunction' = "null"
    /\ pParameter' = "null"
    /\ onExit' = onExit

\* Thread::Reset(): back to the unstarted state.
Reset ==
    /\ hThread' = 0
    /\ pFnFunction' = "null"
    /\ pParameter' = "null"
    /\ onExit' = FALSE

\* A Join that returns Success without erasing the handle.
Thread_Join_Reset_Skipped ==
    /\ opc = "join_reset" /\ ~crashed
    /\ UNCHANGED <<hThread, pFnFunction, pParameter, onExit>>
    /\ opc' = "idle"
    /\ oret' = "Success"
    /\ startedNotJoined' = FALSE
    /\ jops' = jops
    /\ UNCHANGED <<ocall, ncalls, unit, invoked, released, closeFailed, doubleRelease,
                   osFaulty, crashed>>
    /\ UNCHANGED <<startArgs, joinTimedOut, lastWait>>
    /\ UNCHANGED notThread

\* Thread::Join: if (result == Result::Success) Reset(); return result.
Thread_Join_Reset ==
    /\ opc = "join_reset" /\ ~crashed
    /\ Reset
    /\ opc' = "idle"
    /\ oret' = "Success"
    /\ startedNotJoined' = FALSE
    /\ jops' = jops \cup {"Reset"}
    /\ UNCHANGED <<ocall, ncalls, unit, invoked, released, closeFailed, doubleRelease,
                   osFaulty, crashed>>
    /\ UNCHANGED <<startArgs, joinTimedOut, lastWait>>
    /\ UNCHANGED notThread

\* Thread::ThreadShim on the new execution unit: it calls
\* pThread->pFnFunction(pThread->pParameter).
ThreadShim_Call(h) ==
    /\ unit[h] = "created" /\ ~crashed
    /\ IF pFnFunction = "null"
         THEN crashed' = TRUE /\ UNCHANGED <<unit, invoked>>
         ELSE /\ unit' = [unit EXCEPT ![h] = "running"]
              /\ invoked' = [invoked EXCEPT ![h] = <<pFnFunction, pParameter>>]
              /\ UNCHANGED crashed
    /\ UNCHANGED <<hThread, pFnFunction, pParameter, onExit, opc, ocall, oret, ncalls,
                   released, closeFailed, doubleRelease, jops, startedNotJoined, osFaulty>>
    /\ UNCHANGED <<startArgs, joinTimedOut, lastWait>>
    /\ UNCHANGED notThread

\* The entry function returns.
EntryFunction_Return(h) ==
    /\ unit[h] = "running" /\ ~crashed
    /\ unit' = [unit EXCEPT ![h] = "returned"]
    /\ UNCHANGED <<hThread, pFnFunction, pParameter, onExit, opc, ocall, oret, ncalls,
                   invoked, released, closeFailed, doubleRelease, jops, startedNotJoined,
                   osFaulty, crashed>>
    /\ UNCHANGED <<startArgs, joinTimedOut, lastWait>>
    /\ UNCHANGED notThread

\* Thread::ThreadShim: pThread->onExit.Signal() after the entry function.
ThreadShim_Signal(h) ==
    /\ unit[h] = "returned" /\ ~crashed
    /\ onExit' = TRUE
    /\ unit' = [unit EXCEPT ![h] = "signaled"]
    /\ UNCHANGED <<hThread, pFnFunction, pParameter, opc, ocall, oret, ncalls,
                   invoked, released, closeFailed, doubleRelease, jops, startedNotJoined,
                   osFaulty, crashed>>
    /\ UNCHANGED <<startArgs, joinTimedOut, lastWait>>
    /\ UNCHANGED notThread

\* Thread::ThreadShim returns and the execution unit terminates.
ThreadShim_Exit(h) ==
    /\ unit[h] = "signaled" /\ ~crashed
    /\ unit' = [unit EXCEPT ![h] = "terminated"]
    /\ UNCHANGED <<hThread, pFnFunction, pParameter, onExit, opc, ocall, oret, ncalls,
                   invoked, released, closeFailed, doubleRelease, jops, startedNotJoined,
                   osFaulty, crashed>>
    /\ UNCHANGED <<startArgs, joinTimedOut, lastWait>>
    /\ UNCHANGED notThread

\* The execution unit is terminated externally (the case the comment in
\* Thread::Join describes): the OS signals the thread object, ThreadShim
\* goes no further and onExit is not signaled by it.
Unit_TerminatedExternally(h) ==
    /\ unit[h] \in {"created", "running", "returned"} /\ ~crashed
    /\ unit' = [unit EXCEPT ![h] = "terminated"]
    /\ UNCHANGED <<hThread, pFnFunction, pParameter, onExit, opc, ocall, oret, ncalls,
                   invoked, released, closeFailed, doubleRelease, jops, startedNotJoined,
                   osFaulty, crashed>>
    /\ UNCHANGED <<startArgs, joinTimedOut, lastWait>>
    /\ UNCHANGED notThread

(***************************************************************************)
(* Thread::SetNameRaw                                                      *)
(***************************************************************************)
\* A name is a string of characters: "a" takes one byte, "w" is a multibyte
\* character of two bytes, "x" is a byte that starts no valid character.
NameChars == {"a", "w", "x"}

RECURSIVE NamesOfLength(_)
NamesOfLength(n) ==
    IF n = 0 THEN {<< >>}
    ELSE {<<c>> \o name : c \in NameChars, name \in NamesOfLength(n - 1)}

\* The names the model draws from: up to one character more than the buffer
\* holds.
Names == UNION {NamesOfLength(n) : n \in 0 .. kThreadNameMaxLength + 1}

\* strlen(pThreadName): the length in bytes.
RECURSIVE strlen(_)
strlen(name) ==
    IF name = << >> THEN 0
    ELSE (IF Head(name) = "w" THEN 2 ELSE 1) + strlen(Tail(name))

Min(a, b) == IF a < b THEN a ELSE b

\* mbstowcs(dst, src, len) having written n wide characters: it stops after
\* len wide characters or at the end of src, and returns (size_t)-1, here -1,
\* at an invalid character.
RECURSIVE mbstowcsFrom(_, _, _)
mbstowcsFrom(name, len, n) ==
    IF n = len \/ name = << >> THEN [converted |-> n, written |-> n]
    ELSE IF Head(name) = "x" THEN [converted |-> -1, written |-> n]
    ELSE mbstowcsFrom(Tail(name), len, n + 1)

mbstowcs(name, len) == mbstowcsFrom(name, len, 0)

\* converted < ArraySize(wThreadName), a comparison of size_t values: -1
\* stands for (size_t)-1, which is above every array size.
ConvertedFits_Signed(converted) == converted < kThreadNameMaxLength
ConvertedFits(converted) == converted /= -1 /\ converted < kThreadNameMaxLength

\* What SetThreadDescription can return on handle h: S_OK, or a failure
\* HRESULT (always on NULL or on a released handle).
SetThreadDescription(h) ==
    (IF h \in Created \ released THEN {"S_OK"} ELSE {})
    \cup (IF osFaulty \/ h \notin Created \ released THEN {"E_HANDLE"} ELSE {})

SUCCEEDED(hResult) == hResult = "S_OK"

NameInit(support) ==
    /\ naming \in support
    /\ nlast = [op |-> "none"]

\* A host with SetThreadDescription on which SetNameRaw has not been called.
NameUnused == NameInit({"yes"})

\* Thread::SetNameRaw(pThreadName), called by the owner.
Thread_SetNameRaw(name) ==
    /\ opc = "idle" /\ ~crashed
    /\ IF naming /= "yes"
         THEN nlast' = [op |-> "SetNameRaw", name |-> name, converted |-> 0,
                        written |-> 0, hResult |-> "none", result |-> "Unavailable"]
         ELSE LET len == Min(kThreadNameMaxLength, strlen(name))
                  c == mbstowcs(name, len)
              IN IF ConvertedFits(c.converted)
                   THEN \E hResult \in SetThreadDescription(hThread) :
                        nlast' = [op |-> "SetNameRaw", name |-> name,
                                  converted |-> c.converted, written |-> c.written,
                                  hResult |-> hResult,
                                  result |-> IF SUCCEEDED(hResult) THEN "Success"
                                             ELSE "Error"]
                   ELSE nlast' = [op |-> "SetNameRaw", name |-> name,
                                  converted |-> c.converted, written |-> c.written,
                                  hResult |-> "E_FAIL", result |-> "Error"]
    /\ UNCHANGED naming
    /\ UNCHANGED notName

(***************************************************************************)
(* WaitObject bookkeeping                                                  *)
(***************************************************************************)
WaitInit(faulty) ==
    /\ waitFaulty = faulty
    /\ lastWait = [status |-> "none", result |-> "none"]

\* Timeouts of Event::Wait and Semaphore::Wait: 0, a finite number of
\* milliseconds, or infinite.
WaitTimeouts == {"zero", "finite", "infinite"}

(***************************************************************************)
(* Event                                                                   *)
(***************************************************************************)
\* The bManualReset argument Event::Event passes to CreateEvent.
EventManualReset_Auto == FALSE
EventManualReset == TRUE

\* What CreateEvent can return: the handle of a new event, or NULL when the
\* OS fails to create one.
CreateEvent(faulty) == {1} \cup (IF faulty THEN {0} ELSE {})

\* Event::Event(bool signaled): m_event = CreateEvent(nullptr, TRUE,
\* signaled, nullptr); the handle is stored as returned.
EventInit(args, faulty) ==
    /\ m_event \in CreateEvent(faulty)
    /\ eventState \in args
    /\ epc = [t \in EventThreads |-> "idle"]
    /\ etimeout = [t \in EventThreads |-> "none"]
    /\ ecalls = 0
    /\ elast = [op |-> "Event", thread |-> 0, timeout |-> "none",
                os |-> m_event, result |-> "void",
                before |-> eventState, after |-> eventState]
    /\ eprev = "none"
    /\ erequested = eventState
    /\ etimedOut = {}

\* What SetEvent and ResetEvent can return on m_event: nonzero on success,
\* 0 when the call fails (always on NULL).
EventCallReturns ==
    (IF m_event /= 0 THEN {1} ELSE {}) \cup (IF osFaulty \/ m_event = 0 THEN {0} ELSE {})

\* The state SetEvent leaves the event object in.
SetEvent_Toggle(state, ok) == IF ok /= 0 THEN ~state ELSE state
SetEvent(state, ok) == IF ok /= 0 THEN TRUE ELSE state

\* The state ResetEvent leaves the event object in.
ResetEvent(state, ok) == IF ok /= 0 THEN FALSE ELSE state

\* void Event::Signal() { SetEvent(m_event); }
Event_Signal(t) ==
    /\ epc[t] = "idle"
    /\ ecalls < MaxEventCalls
    /\ \E ok \in EventCallReturns :
        /\ eventState' = SetEvent(eventState, ok)
        /\ elast' = [op |-> "Signal", thread |-> t, timeout |-> "none",
                     os |-> ok, result |-> "void",
                     before |-> eventState, after |-> eventState']
    /\ eprev' = elast.op
    /\ erequested' = TRUE
    /\ ecalls' = ecalls + 1
    /\ UNCHANGED <<m_event, epc, etimeout, etimedOut>>
    /\ UNCHANGED lastWait
    /\ UNCHANGED notEvent

\* void Event::Clear() { ResetEvent(m_event); }
Event_Clear(t) ==
    /\ epc[t] = "idle"
    /\ ecalls < MaxEventCalls
    /\ \E ok \in EventCallReturns :
        /\ eventState' = ResetEvent(eventState, ok)
        /\ elast' = [op |-> "Clear", thread |-> t, timeout |-> "none",
                     os |-> ok, result |-> "void",
                     before |-> eventState, after |-> eventState']
    /\ eprev' = elast.op
    /\ erequested' = FALSE
    /\ ecalls' = ecalls + 1
    /\ UNCHANGED <<m_event, epc, etimeout, etimedOut>>
    /\ UNCHANGED lastWait
    /\ UNCHANGED notEvent

\* Event::Wait(timeoutInMs) is called; the caller blocks in WaitObject.
Event_Wait_Call(t, timeout) ==
    /\ epc[t] = "idle"
    /\ ecalls + Cardinality({u \in EventThreads : epc[u] = "wait"}) < MaxEventCalls
    /\ epc' = [epc EXCEPT ![t] = "wait"]
    /\ etimeout' = [etimeout EXCEPT ![t] = timeout]
    /\ UNCHANGED <<m_event, eventState, ecalls, elast, eprev, erequested, etimedOut>>
    /\ UNCHANGED lastWait
    /\ UNCHANGED notEvent

\* The statuses a wait on m_event can report; a wait on NULL fails.
WaitOnEvent(timeout) ==
    IF m_event /= 0 THEN WaitForSingleObject(eventState, timeout) ELSE {"WAIT_FAILED"}

\* Event::Wait returns WaitObject(m_event, timeoutInMs).  A satisfied wait
\* resets an auto-reset event and leaves a manual-reset event as it is.
Event_Wait_Return(t) ==
    /\ epc[t] = "wait"
    /\ \E status \in WaitOnEvent(etimeout[t]) :
        LET result == WaitObject(status) IN
        /\ eventState' = IF status = "WAIT_OBJECT_0" /\ ~EventManualReset
                            THEN FALSE ELSE eventState
        /\ elast' = [op |-> "Wait", thread |-> t, timeout |-> etimeout[t],
                     os |-> status, result |-> result,
                     before |-> eventState, after |-> eventState']
        /\ lastWait' = [status |-> status, result |-> result]
        /\ etimedOut' = IF result = "NotReady" THEN etimedOut \cup {t} ELSE etimedOut
    /\ eprev' = elast.op
    /\ epc' = [epc EXCEPT ![t] = "idle"]
    /\ etimeout' = [etimeout EXCEPT ![t] = "none"]
    /\ ecalls' = ecalls + 1
    /\ UNCHANGED <<m_event, erequested>>
    /\ UNCHANGED notEvent

(***************************************************************************)
(* Semaphore                                                               *)
(***************************************************************************)
\* What CreateSemaphore can return: the handle of a new semaphore, or NULL
\* when the OS fails to create one (always unless
\* 0 <= lInitialCount <= lMaximumCount and lMaximumCount > 0).
CreateSemaphore(lInitialCount, lMaximumCount, faulty) ==
    IF lMaximumCount > 0 /\ 0 <= lInitialCount /\ lInitialCount <= lMaximumCount
        THEN {1} \cup (IF faulty THEN {0} ELSE {})
        ELSE {0}

\* Windows::CreateSharedSemaphore(initialCount, maxCount) returns what
\* CreateSemaphore returned.
CreateSharedSemaphore(initialValue, maxValue, faulty) ==
    CreateSemaphore(initialValue, maxValue, faulty)

\* Semaphore::Semaphore(initialCount, maxCount):
\* m_semaphore = Windows::CreateSharedSemaphore(initialCount, maxCount).
SemaphoreInit(args, faulty, admission) ==
    /\ \E a \in args : initialCount = a[1] /\ maxCount = a[2]
    /\ m_semaphore \in CreateSharedSemaphore(initialCount, maxCount, faulty)
    /\ count = IF m_semaphore /= 0 THEN initialCount ELSE 0
    /\ spc = [t \in SemaphoreThreads |-> "idle"]
    /\ stimeout = [t \in SemaphoreThreads |-> "none"]
    /\ held = [t \in SemaphoreThreads |-> 0]
    /\ disciplined = admission
    /\ scalls = 0
    /\ slast = [op |-> "Semaphore", thread |-> 0, timeout |-> "none",
                os |-> m_semaphore, result |-> "void",
                before |-> count, after |-> count]
    /\ stimedOut = {}

\* The constructor arguments the model draws from.
SemaphoreArgs == (0 .. MaxCount) \X (0 .. MaxCount)

\* What ReleaseSemaphore(m_semaphore, 1, nullptr) can return: nonzero when
\* it adds one to the count, 0 when it fails (always on NULL and when the
\* count would exceed the maximum).
ReleaseSemaphore ==
    (IF m_semaphore /= 0 /\ count + 1 <= maxCount THEN {1} ELSE {})
    \cup (IF osFaulty \/ m_semaphore = 0 \/ count + 1 > maxCount THEN {0} ELSE {})

\* Windows::SignalSharedSemaphore: return (result != 0) ? Success : Error.
SignalSharedSemaphore_Unchecked(ok) == "Success"
SignalSharedSemaphore(ok) == IF ok /= 0 THEN "Success" ELSE "Error"

\* Semaphore::Signal() returns Windows::SignalSharedSemaphore(m_semaphore).
Semaphore_Signal(t) ==
    /\ spc[t] = "idle"
    /\ scalls < MaxSemaphoreCalls
    /\ disciplined => held[t] > 0
    /\ \E ok \in ReleaseSemaphore :
        LET result == SignalSharedSemaphore(ok) IN
        /\ count' = IF ok /= 0 THEN count + 1 ELSE count
        /\ slast' = [op |-> "Signal", thread |-> t, timeout |-> "none",
                     os |-> ok, result |-> result,
                     before |-> count, after |-> count']
        /\ held' = [held EXCEPT ![t] = IF result = "Success" /\ @ > 0 THEN @ - 1 ELSE @]
    /\ scalls' = scalls + 1
    /\ UNCHANGED <<m_semaphore, initialCount, maxCount, spc, stimeout, disciplined,
                   stimedOut>>
    /\ UNCHANGED lastWait
    /\ UNCHANGED notSemaphore

\* Semaphore::Wait(timeoutInMs) is called; the caller blocks in WaitObject.
Semaphore_Wait_Call(t, timeout) ==
    /\ spc[t] = "idle"
    /\ scalls + Cardinality({u \in SemaphoreThreads : spc[u] = "wait"}) < MaxSemaphoreCalls
    /\ spc' = [spc EXCEPT ![t] = "wait"]
    /\ stimeout' = [stimeout EXCEPT ![t] = timeout]
    /\ UNCHANGED <<m_semaphore, initialCount, maxCount, count, held, disciplined, scalls,
                   slast, stimedOut>>
    /\ UNCHANGED lastWait
    /\ UNCHANGED notSemaphore

\* The statuses a wait on m_semaphore can report: the semaphore object is
\* signaled while its count is above zero; a wait on NULL fails.
WaitOnSemaphore(timeout) ==
    IF m_semaphore /= 0 THEN WaitForSingleObject(count > 0, timeout) ELSE {"WAIT_FAILED"}

\* Semaphore::Wait returns WaitObject(m_semaphore, timeoutInMs).  A
\* satisfied wait takes one from the count of the semaphore object.
Semaphore_Wait_Return(t) ==
    /\ spc[t] = "wait"
    /\ \E status \in WaitOnSemaphore(stimeout[t]) :
        LET result == WaitObject(status) IN
        /\ count' = IF status = "WAIT_OBJECT_0" THEN count - 1 ELSE count
        /\ slast' = [op |-> "Wait", thread |-> t, timeout |-> stimeout[t],
                     os |-> status, result |-> result,
                     before |-> count, after |-> count']
        /\ lastWait' = [status |-> status, result |-> result]
        /\ held' = [held EXCEPT ![t] = IF result = "Success" THEN @ + 1 ELSE @]
        /\ stimedOut' = IF result = "NotReady" THEN stimedOut \cup {t} ELSE stimedOut
    /\ spc' = [spc EXCEPT ![t] = "idle"]
    /\ stimeout' = [stimeout EXCEPT ![t] = "none"]
    /\ scalls' = scalls + 1
    /\ UNCHANGED <<m_semaphore, initialCount, maxCount, disciplined>>
    /\ UNCHANGED notSemaphore

(***************************************************************************)
(* Specifications                                                          *)
(***************************************************************************)
\* An Event(false) and a Semaphore(0, 1) that nothing uses.
EventUnused == EventInit({FALSE}, FALSE)
SemaphoreUnused == SemaphoreInit({<<0, 1>>}, FALSE, FALSE)

Init == LockInit /\ MutexInit /\ AtomicInit({<<0, Int64(0)>>}, AtomicThreads, MaxAtomicCalls)
        /\ ThreadInit(TRUE) /\ NameUnused /\ WaitInit(TRUE) /\ EventUnused /\ SemaphoreUnused

InitThreadLive ==
    /\ LockInit /\ MutexInit /\ AtomicInit({<<0, Int64(0)>>}, AtomicThreads, MaxAtomicCalls)
    /\ ThreadInit(FALSE) /\ NameUnused /\ WaitInit(FALSE) /\ EventUnused /\ SemaphoreUnused

InitAtomic ==
    /\ LockInit /\ MutexInit /\ AtomicInit(InitialValues, AtomicThreads, MaxAtomicCalls)
    /\ ThreadInit(TRUE) /\ NameUnused /\ WaitInit(TRUE) /\ EventUnused /\ SemaphoreUnused

InitIncrement ==
    /\ LockInit /\ MutexInit /\ AtomicInit(InitialValues, IncrementThreads, IncrementsPerThread)
    /\ ThreadInit(TRUE) /\ NameUnused /\ WaitInit(TRUE) /\ EventUnused /\ SemaphoreUnused

\* An Event constructed with either argument, on an OS whose calls do not fail.
InitEvent ==
    /\ LockInit /\ MutexInit /\ AtomicInit({<<0, Int64(0)>>}, AtomicThreads, MaxAtomicCalls)
    /\ ThreadInit(FALSE) /\ NameUnused /\ WaitInit(FALSE) /\ EventInit(BOOLEAN, FALSE) /\ SemaphoreUnused

\* A Semaphore constructed with any arguments, on an OS whose calls fail only
\* where their arguments make them fail.
InitSemaphore ==
    /\ LockInit /\ MutexInit /\ AtomicInit({<<0, Int64(0)>>}, AtomicThreads, MaxAtomicCalls)
    /\ ThreadInit(FALSE) /\ NameUnused /\ WaitInit(FALSE) /\ EventUnused
    /\ SemaphoreInit(SemaphoreArgs, FALSE, FALSE)

\* The same Semaphore used for admission: a thread calls Signal only after a
\* successful Wait of its own.
InitAdmission ==
    /\ LockInit /\ MutexInit /\ AtomicInit({<<0, Int64(0)>>}, AtomicThreads, MaxAtomicCalls)
    /\ ThreadInit(FALSE) /\ NameUnused /\ WaitInit(FALSE) /\ EventUnused
    /\ SemaphoreInit(SemaphoreArgs, FALSE, TRUE)

NextLock ==
    \E t \in LockThreads :
        \/ AtomicLock_Call(t)
        \/ AtomicLock_Lock(t)
        \/ AtomicLock_Spin(t)
        \/ Guarded_Enter(t)
        \/ Guarded_Exit(t)
        \/ AtomicLock_Unlock(t)

SpecLock == Init /\ [][NextLock]_vars

\* Threads that also call Unlock() without holding the lock.
NextLockMisuse ==
    \E t \in LockThreads :
        \/ AtomicLock_Call(t)
        \/ AtomicLock_Lock(t)
        \/ AtomicLock_Spin(t)
        \/ Guarded_Enter(t)
        \/ Guarded_Exit(t)
        \/ AtomicLock_Unlock(t)
        \/ AtomicLock_Unlock_Unheld(t)

SpecLockMisuse == Init /\ [][NextLockMisuse]_vars

\* The steps of thread t inside Lock(), the guarded region and Unlock().
LockStep(t) ==
    \/ AtomicLock_Lock(t)
    \/ AtomicLock_Spin(t)
    \/ Guarded_Enter(t)
    \/ Guarded_Exit(t)
    \/ AtomicLock_Unlock(t)

\* Threads that call Lock() and Unlock() without end.
NextLockForever ==
    \E t \in LockThreads :
        \/ AtomicLock_Call(t)
        \/ AtomicLock_Call_Again(t)
        \/ AtomicLock_Lock(t)
        \/ AtomicLock_Spin(t)
        \/ Guarded_Enter(t)
        \/ Guarded_Exit(t)
        \/ AtomicLock_Unlock(t)

\* Every thread inside Lock(), the guarded region or Unlock() is scheduled
\* (weak fairness), so every holder unlocks.
SpecLockFair ==
    /\ Init
    /\ [][NextLockForever]_vars
    /\ \A t \in LockThreads : WF_vars(LockStep(t))

\* A schedule of the same threads under which thread Starved performs the
\* exchange of Lock() only at moments when another thread has the lock.  The
\* other threads are scheduled as in SpecLockFair and keep calling Lock();
\* Starved is scheduled again and again.
Starved == 1

NextLockStarve ==
    \/ \E t \in LockThreads \ {Starved} :
            \/ AtomicLock_Call(t)
            \/ AtomicLock_Call_Again(t)
            \/ AtomicLock_Lock(t)
            \/ AtomicLock_Spin(t)
            \/ Guarded_Enter(t)
            \/ Guarded_Exit(t)
            \/ AtomicLock_Unlock(t)
    \/ AtomicLock_Call(Starved)
    \/ m_lock = 1 /\ AtomicLock_Lock(Starved)
    \/ AtomicLock_Spin(Starved)

SpecLockStarve ==
    /\ Init
    /\ [][NextLockStarve]_vars
    /\ \A t \in LockThreads \ {Starved} :
            /\ WF_vars(LockStep(t))
            /\ WF_vars(AtomicLock_Call(t) \/ AtomicLock_Call_Again(t))
    /\ SF_vars(AtomicLock_Spin(Starved))
    /\ SF_vars(m_lock = 1 /\ AtomicLock_Lock(Starved))

NextMutex ==
    \E t \in MutexThreads :
        \/ Mutex_Call(t)
        \/ Mutex_Lock_Enter(t)
        \/ Mutex_Lock_Count(t)
        \/ Mutex_Unlock_Count(t)
        \/ Mutex_Unlock_Leave(t)

SpecMutex == Init /\ [][NextMutex]_vars

\* Threads that also call Lock() while they hold the mutex.
NextMutexRecursive ==
    \E t \in MutexThreads :
        \/ Mutex_Call(t)
        \/ Mutex_Call_Recursive(t)
        \/ Mutex_Lock_Enter(t)
        \/ Mutex_Lock_Count(t)
        \/ Mutex_Unlock_Count(t)
        \/ Mutex_Unlock_Leave(t)

SpecMutexRecursive == Init /\ [][NextMutexRecursive]_vars

\* N threads that each perform k AtomicIncrement calls on one counter.
NextIncrement == \E t \in IncrementThreads : Call_AtomicIncrement(t)

SpecIncrement == InitIncrement /\ [][NextIncrement]_vars

\* Threads that call any of the eight atomic operations.
NextAtomic ==
    \E t \in AtomicThreads :
        \/ Call_AtomicIncrement(t)
        \/ Call_AtomicDecrement(t)
        \/ Call_AtomicAdd(t)
        \/ Call_AtomicSubtract(t)
        \/ Call_AtomicIncrement64(t)
        \/ Call_AtomicDecrement64(t)
        \/ Call_AtomicAdd64(t)
        \/ Call_AtomicSubtract64(t)

SpecAtomic == InitAtomic /\ [][NextAtomic]_vars

\* The owner's calls and the steps of Join.
NextOwner ==
    \/ \E fn \in EntryFunctions, param \in Parameters : Thread_Start(fn, param)
    \/ \E timeout \in Timeouts : Thread_Join_Call(timeout)
    \/ Thread_Join_Alive
    \/ Thread_Join_Wait
    \/ Thread_Join_Close
    \/ Thread_Join_Reset

\* The steps of the execution units.
NextUnit ==
    \E h \in Handles :
        \/ ThreadShim_Call(h)
        \/ EntryFunction_Return(h)
        \/ ThreadShim_Signal(h)
        \/ ThreadShim_Exit(h)

NextThread == NextOwner \/ NextUnit

\* The Thread object with an OS whose calls may fail.
SpecThread == Init /\ [][NextThread]_vars

\* The Thread object with an OS whose calls do not fail.  The OS schedules
\* every execution unit, the entry function returns, and a Join that can go
\* on does go on.
UnitStep(h) ==
    \/ ThreadShim_Call(h)
    \/ EntryFunction_Return(h)
    \/ ThreadShim_Signal(h)
    \/ ThreadShim_Exit(h)

JoinStep ==
    \/ Thread_Join_Alive
    \/ Thread_Join_Wait
    \/ Thread_Join_Close
    \/ Thread_Join_Reset

SpecThreadLive ==
    /\ InitThreadLive
    /\ [][NextThread]_vars
    /\ \A h \in Handles : WF_vars(UnitStep(h))
    /\ WF_vars(JoinStep)

\* The Thread object with an OS on which CreateThread and CloseHandle may
\* fail while a wait on a valid handle reports signaled or timeout; the
\* scheduling is that of SpecThreadLive.
InitThreadFair ==
    /\ LockInit /\ MutexInit /\ AtomicInit({<<0, Int64(0)>>}, AtomicThreads, MaxAtomicCalls)
    /\ ThreadInit(TRUE) /\ NameUnused /\ WaitInit(FALSE) /\ EventUnused /\ SemaphoreUnused

SpecThreadFair ==
    /\ InitThreadFair
    /\ [][NextThread]_vars
    /\ \A h \in Handles : WF_vars(UnitStep(h))
    /\ WF_vars(JoinStep)

\* The Thread object whose execution units may also be terminated externally
\* at any point.  OS calls do not fail; scheduling is that of SpecThreadLive,
\* and nothing obliges anyone to terminate a unit.
NextThreadTerminate ==
    \/ NextOwner
    \/ NextUnit
    \/ \E h \in Handles : Unit_TerminatedExternally(h)

SpecThreadTerminate ==
    /\ InitThreadLive
    /\ [][NextThreadTerminate]_vars
    /\ \A h \in Handles : WF_vars(UnitStep(h))
    /\ WF_vars(JoinStep)

\* The same Thread object on an OS where CreateThread and CloseHandle may
\* fail.
SpecThreadTerminateOs == InitThreadFair /\ [][NextThreadTerminate]_vars

\* The owner starts and joins the Thread and names it at any point, on a host
\* with or without the naming function.
InitName ==
    /\ LockInit /\ MutexInit /\ AtomicInit({<<0, Int64(0)>>}, AtomicThreads, MaxAtomicCalls)
    /\ ThreadInit(TRUE) /\ NameInit({"none", "nofunc", "yes"}) /\ WaitInit(FALSE)
    /\ EventUnused /\ SemaphoreUnused

NextName ==
    \/ \E param \in Parameters : Thread_Start("fnA", param)
    \/ \E name \in Names : Thread_SetNameRaw(name)

SpecName == InitName /\ [][NextName]_vars

\* Threads that call Signal, Clear and Wait on one Event.
NextEvent ==
    \E t \in EventThreads :
        \/ Event_Signal(t)
        \/ Event_Clear(t)
        \/ \E timeout \in WaitTimeouts : Event_Wait_Call(t, timeout)
        \/ Event_Wait_Return(t)

SpecEvent == InitEvent /\ [][NextEvent]_vars

\* Threads that call Signal and Wait on one Semaphore.
NextSemaphore ==
    \E t \in SemaphoreThreads :
        \/ Semaphore_Signal(t)
        \/ \E timeout \in WaitTimeouts : Semaphore_Wait_Call(t, timeout)
        \/ Semaphore_Wait_Return(t)

SpecSemaphore == InitSemaphore /\ [][NextSemaphore]_vars

SpecAdmission == InitAdmission /\ [][NextSemaphore]_vars

\* One Thread, one Event and one Semaphore on an OS whose calls may fail.  The
\* three objects share no state, so a behaviour uses one of them and leaves
\* the other two as constructed.
ThreadUnused == ThreadInit(TRUE)

\* Semaphore(0, 1), Semaphore(1, 1) and Semaphore(2, 1), whose creation fails.
ObjectsSemaphoreArgs == {<<0, 1>>, <<1, 1>>, <<2, 1>>}

InitObjects ==
    /\ LockInit /\ MutexInit /\ AtomicInit({<<0, Int64(0)>>}, AtomicThreads, MaxAtomicCalls)
    /\ ThreadInit(TRUE) /\ NameUnused /\ WaitInit(TRUE)
    /\ \/ EventUnused /\ SemaphoreUnused
       \/ EventInit(BOOLEAN, TRUE) /\ SemaphoreUnused
       \/ EventUnused /\ SemaphoreInit(ObjectsSemaphoreArgs, TRUE, FALSE)

NextObjects ==
    \/ EventUnused /\ SemaphoreUnused /\ NextThread
    \/ ThreadUnused /\ SemaphoreUnused /\ NextEvent
    \/ ThreadUnused /\ EventUnused /\ NextSemaphore

SpecObjects == InitObjects /\ [][NextObjects]_vars

(***************************************************************************)
(* Claims                                                                  *)
(***************************************************************************)
\* C1: AtomicLock mutual exclusion.  In every interleaving of threads that
\* each repeatedly call Lock(), run the guarded region and call Unlock(), at
\* most one thread is between the return of its Lock() and its call of
\* Unlock(), and the shared counter incremented on entry and decremented on
\* exit never exceeds 1.
C1_AtomicLockMutualExclusion ==
    /\ Cardinality(LockHolders) <= 1
    /\ guarded \in {0, 1}
    /\ (LockHolders /= {}) => m_lock = 1

\* A thread is inside the guarded region while another thread is spinning
\* in Lock() and a third has already completed a round.
C1_Witness ==
    \E t, u, w \in LockThreads :
        /\ lpc[t] = "inside"
        /\ lpc[u] = "lock_spin"
        /\ lrounds[w] >= 1
        /\ guarded = 1

\* C2: Mutex mutual exclusion.  With distinct threads that each call
\* Lock() and later Unlock() without recursion, at most one thread holds the
\* mutex at a time, the value of lockCount the holder read right after its
\* increment is exactly 1, and the assertion count == 1 never fires.
C2_MutexMutualExclusion ==
    /\ Cardinality(MutexHolders) <= 1
    /\ \A t \in MutexThreads : mpc[t] \in {"held", "unlock_leave"} => mcount[t] = 1
    /\ \A t \in MutexThreads : mpc[t] = "held" => (csOwner = t /\ lockCount = 1)
    /\ mutexAssert = FALSE

\* A thread holds the mutex, having read count = 1, while a second thread
\* is blocked in Lock() and a third has completed a Lock/Unlock round.
C2_Witness ==
    \E t, u, w \in MutexThreads :
        /\ mpc[t] = "held" /\ mcount[t] = 1
        /\ mpc[u] = "lock_enter"
        /\ mrounds[w] >= 1

\* The signed 32-bit value congruent to a + b modulo 2^32, for reference.
Sum32(a, b) ==
    IF b >= 0
        THEN IF a <= MaxInt32 - b THEN a + b
             ELSE MinInt32 + ((b - 1) - (MaxInt32 - a))
        ELSE IF a >= MinInt32 - b THEN a + b
             ELSE ((a - MinInt32) + (b + MaxInt32)) + 1

\* The signed 32-bit value congruent to a - b modulo 2^32, for reference.
Difference32(a, b) == IF b = MinInt32 THEN Sum32(a, MinInt32) ELSE Sum32(a, -b)

AllCallsDone == \A t \in DOMAIN acalls : acalls[t] = alimit
TotalCalls == Cardinality(DOMAIN acalls) * alimit

\* C3: no lost updates.  When N threads have each performed k
\* AtomicIncrement calls on one counter that started at v0, the counter holds
\* v0 + N*k (in the counter's 32-bit arithmetic), whatever the interleaving.
C3_NoLostUpdates ==
    (AllCallsDone /\ incOnly) => counter = Sum32(initial[1], TotalCalls)

\* All N threads have finished their k increments, from a starting value
\* where the sum does not wrap.
C3_Witness ==
    /\ AllCallsDone /\ incOnly
    /\ Cardinality(DOMAIN acalls) >= 2 /\ alimit >= 2
    /\ initial[1] = -1
    /\ counter = initial[1] + TotalCalls

\* A 64-bit value that fits in 32 bits, and its integer value.
Small64(x) == (x.hi = 0 /\ x.lo >= 0) \/ (x.hi = -1 /\ x.lo < 0)

\* What the last call has to store: the old value plus or minus the operand.
ExpectedValue ==
    CASE alast.op = "Increment" -> Sum32(alast.old, 1)
      [] alast.op = "Decrement" -> Difference32(alast.old, 1)
      [] alast.op = "Add" -> Sum32(alast.old, alast.num)
      [] alast.op = "Subtract" -> Difference32(alast.old, alast.num)
      [] alast.op = "Increment64" -> Add64(alast.old, Int64(1))
      [] alast.op = "Decrement64" -> Add64(alast.old, Int64(-1))
      [] alast.op = "Add64" -> Add64(alast.old, alast.num)
      [] alast.op = "Subtract64" -> Add64(alast.old, NegateLong64(alast.num))

\* For 64-bit calls on values that fit in 32 bits, the stored value is the
\* integer sum or difference.
SmallValue64 ==
    (/\ alast.op \in {"Increment64", "Decrement64", "Add64", "Subtract64"}
     /\ Small64(alast.old) /\ Small64(alast.num) /\ Small64(alast.new)
     /\ alast.old.lo \in -1000 .. 1000 /\ alast.num.lo \in -1000 .. 1000)
    => alast.new.lo = IF alast.op \in {"Increment64", "Add64"}
                         THEN alast.old.lo + alast.num.lo
                         ELSE alast.old.lo - alast.num.lo

\* C4: every atomic operation returns the value of the variable right after
\* its own update (old+1, old+num, old-1, old-num), and the values returned
\* by m AtomicIncrement calls on a counter that started at v0 are exactly
\* v0+1 .. v0+m, each returned once.
C4_ReturnsValueAfterUpdate ==
    /\ alast /= NoCall =>
         /\ alast.ret = alast.new
         /\ alast.new = ExpectedValue
         /\ SmallValue64
    /\ incOnly =>
         /\ {incReturns[i] : i \in DOMAIN incReturns}
               = {Sum32(initial[1], i) : i \in 1 .. Len(incReturns)}
         /\ Cardinality({incReturns[i] : i \in DOMAIN incReturns}) = Len(incReturns)

\* Two threads have each completed AtomicIncrement calls, and the last call
\* returned the value it stored, one more than the value it found.
C4_Witness ==
    /\ incOnly /\ Len(incReturns) >= 3
    /\ \A t \in DOMAIN acalls : acalls[t] >= 1
    /\ alast.op = "Increment" /\ alast.ret = alast.old + 1 /\ counter = alast.ret

JoinInfinitePending ==
    opc /= "idle" /\ ocall.op = "Join" /\ ocall.timeout = "infinite"

JoinInfiniteSuccess ==
    opc = "idle" /\ ocall.op = "Join" /\ ocall.timeout = "infinite" /\ oret = "Success"

\* C5: after a successful Start, a Join with the infinite timeout eventually
\* returns Success once the entry function returns, in every interleaving of
\* the owner's Join with the new execution unit (also when the entry
\* function returns before Join is called); it returns nothing but Success.
C5_JoinInfiniteReturnsSuccess ==
    /\ JoinInfinitePending ~> JoinInfiniteSuccess
    /\ []((ocall.op = "Join" /\ ocall.timeout = "infinite" /\ opc = "idle" /\ jops /= {})
            => oret = "Success")

\* A Join with the infinite timeout has returned Success after waiting on
\* the completion event of a second run of the same Thread object.
C5_Witness ==
    /\ JoinInfiniteSuccess
    /\ "onExit.Wait" \in jops
    /\ Cardinality(released) = 2

\* C6: Join on a Thread object that is not joinable returns Error at once:
\* it waits on nothing, releases nothing and leaves the object unchanged.
C6_JoinNotJoinable ==
    [][(ncalls' = ncalls + 1 /\ ocall'.op = "Join" /\ ~IsJoinable)
        => /\ oret' = "Error"
           /\ opc' = "idle"
           /\ jops' = {}
           /\ UNCHANGED <<hThread, pFnFunction, pParameter, onExit, unit, invoked,
                          released, closeFailed>>]_vars

\* Join has returned Error, without any OS call, on an object that was
\* joined successfully before.
C6_Witness ==
    /\ ocall.op = "Join" /\ oret = "Error" /\ opc = "idle"
    /\ jops = {}
    /\ ~IsJoinable
    /\ released /= {}

\* C7: Start returns Error, without blocking, when the object already holds
\* an execution handle or entryFn is null; no execution unit is created and
\* the handle, the stored entry function and parameter stay as they were, so
\* the object never owns more than one live execution handle.
C7_StartRejected ==
    /\ [][(ncalls' = ncalls + 1 /\ ocall'.op = "Start"
            /\ (IsJoinable \/ ocall'.fn = "null"))
           => /\ oret' = "Error"
              /\ opc' = "idle"
              /\ UNCHANGED <<hThread, pFnFunction, pParameter, unit, onExit>>]_vars
    /\ [](Cardinality(Created \ released) <= 1 /\ (Created \ released) \subseteq {hThread})

\* Start with a non-null entry function and another parameter has returned
\* Error on a started object, whose stored parameter is still the old one.
C7_Witness ==
    /\ ocall.op = "Start" /\ oret = "Error"
    /\ ocall.fn /= "null"
    /\ IsJoinable
    /\ pFnFunction = "fnA"
    /\ pParameter /= ocall.param

\* C8: IsJoinable() is true iff some Start has returned Success and no Join
\* has returned Success since, whatever Start calls failed and whatever Join
\* calls timed out in between.
C8_IsJoinable ==
    IsJoinable <=> startedNotJoined

\* The object is joinable after a Join on its second run has timed out.
C8_Witness ==
    /\ IsJoinable
    /\ ocall.op = "Join" /\ oret = "NotReady" /\ opc = "idle"
    /\ released /= {}

\* C9: when Join returns Success the execution handle has been released and
\* the object is idle again (IsJoinable() is false), and a Start with a
\* non-null entry function on an idle object succeeds whenever the OS creates
\* the thread; so Start, Join can be repeated.
C9_Reuse ==
    /\ [][(oret = "pending" /\ oret' = "Success")
           => /\ hThread \in released'
              /\ hThread' = 0
              /\ ~IsJoinable']_vars
    /\ [][(ncalls' = ncalls + 1 /\ ocall'.op = "Start" /\ ocall'.fn /= "null" /\ ~IsJoinable)
           => \/ oret' = "Success" /\ IsJoinable' /\ Created' /= Created
              \/ osFaulty /\ oret' = "Error" /\ Created' = Created]_vars
    /\ []((oret = "Success" /\ ocall.op = "Join") => ~IsJoinable)

\* A second Start, Join cycle on one object has completed.
C9_Witness ==
    /\ ocall.op = "Join" /\ oret = "Success"
    /\ ~IsJoinable
    /\ Cardinality(released) >= 2

\* C10: when CloseHandle fails in Join after the wait succeeded, Join returns
\* Error and does not reset the object (the handle stays bound, IsJoinable()
\* stays true); and no Join ever calls CloseHandle on a handle that an
\* earlier CloseHandle has released.
C10_FailedReleaseKeepsHandle ==
    /\ [][(opc = "join_close" /\ opc' /= "join_close" /\ released' = released)
           => /\ oret' = "Error"
              /\ opc' = "idle"
              /\ hThread' = hThread
              /\ IsJoinable'
              /\ UNCHANGED <<pFnFunction, pParameter, onExit>>]_vars
    /\ [](~doubleRelease)

\* A handle whose release failed in one Join has been released by a later
\* Join, without any release of an already released handle.
C10_Witness ==
    /\ \E h \in Handles : h \in closeFailed /\ h \in released
    /\ ~doubleRelease
    /\ ocall.op = "Join" /\ oret = "Success"
\* The units created by a Start that returned Success, and the units that
\* have called their entry function.
SuccessfulStarts == {h \in Handles : startArgs[h] /= << >>}

Invocations == {h \in Handles : invoked[h] /= << >>}

EventWaitReturns == ecalls' = ecalls + 1 /\ elast'.op = "Wait"

\* C12: Event::Wait reports the current state of the manual-reset event and
\* never changes it.  While the last of constructor, Signal and Clear asked
\* for signaled, the event is signaled and every Wait, by any thread and with
\* any timeout, returns Success; while it asked for non-signaled, the event is
\* non-signaled and every Wait(0) returns NotReady.
C12_EventWaitReportsState ==
    /\ [](eventState = erequested)
    /\ [][EventWaitReturns => eventState' = eventState]_vars
    /\ [][(EventWaitReturns /\ erequested) => elast'.result = "Success"]_vars
    /\ [][(EventWaitReturns /\ ~erequested /\ elast'.timeout = "zero")
            => elast'.result = "NotReady"]_vars

C12_Witness ==
    /\ elast.op = "Wait" /\ elast.result = "Success" /\ eprev = "Wait"
    /\ eventState
    /\ etimedOut /= {}

\* A step in which a call of Event::Signal or Event::Clear is made right
\* after a call of the same operation.
EventRepeats(op) == ecalls' = ecalls + 1 /\ elast'.op = op /\ elast.op = op

\* C13: Signal and Clear are idempotent.  A Signal made right after a Signal
\* leaves the Event as the first one left it, signaled, and no OS call fails;
\* a Clear made right after a Clear leaves it non-signaled.  The state of the
\* event object is all that later Wait, Clear and Signal calls depend on.
C13_SignalClearIdempotent ==
    /\ [][EventRepeats("Signal")
            => (/\ eventState /\ eventState' /\ m_event' = m_event
                /\ elast.os /= 0 /\ elast'.os /= 0)]_vars
    /\ [][EventRepeats("Clear")
            => (/\ ~eventState /\ ~eventState' /\ m_event' = m_event
                /\ elast.os /= 0 /\ elast'.os /= 0)]_vars
    /\ [](\A state \in BOOLEAN :
            /\ SetEvent(SetEvent(state, 1), 1) = SetEvent(state, 1)
            /\ SetEvent(state, 1) = TRUE
            /\ ResetEvent(ResetEvent(state, 1), 1) = ResetEvent(state, 1)
            /\ ResetEvent(state, 1) = FALSE)

C13_Witness ==
    /\ elast.op = "Signal" /\ eprev = "Signal" /\ eventState
    /\ \E t \in EventThreads : epc[t] = "wait"

\* A step in which a call of Semaphore::Wait returns.
SemaphoreWaitReturns == scalls' = scalls + 1 /\ slast'.op = "Wait"

\* C14: on a Semaphore whose construction succeeded, Wait(0) returns Success
\* exactly when the count is above zero and NotReady exactly when it is
\* zero; a Wait that returns Success, with any timeout, takes exactly one from
\* the count, and any other Wait leaves the count as it is.
C14_WaitConsumesOne ==
    /\ [][(SemaphoreWaitReturns /\ m_semaphore /= 0 /\ slast'.timeout = "zero")
            => (/\ slast'.result = "Success" <=> count > 0
                /\ slast'.result = "NotReady" <=> count = 0)]_vars
    /\ [][(SemaphoreWaitReturns /\ m_semaphore /= 0)
            => (/\ slast'.result = "Success" => (count > 0 /\ count' = count - 1)
                /\ slast'.result /= "Success" => count' = count)]_vars

\* Semaphore(0, 1): Wait(0) was NotReady, a Signal made a Wait succeed, and
\* the next Wait(0) is NotReady again.
C14_Witness ==
    /\ initialCount = 0 /\ maxCount = 1 /\ m_semaphore /= 0
    /\ slast.op = "Wait" /\ slast.timeout = "zero" /\ slast.result = "NotReady"
    /\ \E t \in SemaphoreThreads : held[t] = 1 /\ t \in stimedOut
    /\ count = 0 /\ scalls = 4

\* A step in which a call of Semaphore::Signal returns.
SemaphoreSignalReturns == scalls' = scalls + 1 /\ slast'.op = "Signal"

\* C15: on a Semaphore whose construction succeeded the count stays within
\* 0 .. maxCount.  A Signal made while the count equals maxCount returns
\* Error and leaves the count as it is; any other Signal returns Success and
\* adds exactly one.
C15_CountBounded ==
    /\ [](m_semaphore /= 0 => (0 <= count /\ count <= maxCount))
    /\ [][(SemaphoreSignalReturns /\ m_semaphore /= 0)
            => IF count = maxCount
                 THEN slast'.result = "Error" /\ count' = count
                 ELSE slast'.result = "Success" /\ count' = count + 1]_vars

C15_Witness ==
    /\ m_semaphore /= 0 /\ initialCount = 0 /\ maxCount > 0
    /\ slast.op = "Signal" /\ slast.result = "Error"
    /\ slast.before = maxCount /\ count = maxCount

\* The number of successful Waits not yet matched by a Signal of the thread
\* that made them.
RECURSIVE HeldBy(_)
HeldBy(threads) ==
    IF threads = {} THEN 0
    ELSE LET t == CHOOSE u \in threads : TRUE
         IN held[t] + HeldBy(threads \ {t})

Outstanding == HeldBy(SemaphoreThreads)

\* C16: admission bound.  When threads acquire with Wait and release with
\* Signal only after a successful Wait of their own, and initialCount is at
\* most maxCount, the number of outstanding successful Waits never exceeds
\* maxCount: the units held and the count add up to initialCount.
C16_AdmissionBound ==
    (initialCount <= maxCount) =>
        /\ Outstanding <= maxCount
        /\ m_semaphore /= 0 => Outstanding + count = initialCount

C16_Witness ==
    /\ disciplined /\ m_semaphore /= 0
    /\ Outstanding = maxCount /\ maxCount = MaxCount
    /\ \A t \in SemaphoreThreads : held[t] > 0
    /\ \E t \in SemaphoreThreads : spc[t] = "wait"

\* A step in which a call of Thread::Join returns NotReady.
JoinReturnsNotReady == oret = "pending" /\ oret' = "NotReady"

\* C17: a wait that times out has no effect and can be retried.  When
\* Semaphore::Wait returns NotReady the count is as it was, when Event::Wait
\* returns NotReady the event is as it was, and when Thread::Join returns
\* NotReady the Thread is as it was: the handle is bound and not released,
\* IsJoinable() is true, and Join has made no CloseHandle and no Reset.  A
\* later call by a thread that has timed out does not time out once the object
\* is signaled.
C17_TimeoutHasNoEffect ==
    /\ [][(SemaphoreWaitReturns /\ slast'.result = "NotReady")
            => UNCHANGED <<m_semaphore, count, initialCount, maxCount>>]_vars
    /\ [][(EventWaitReturns /\ elast'.result = "NotReady")
            => UNCHANGED <<m_event, eventState>>]_vars
    /\ [][JoinReturnsNotReady
            => (/\ UNCHANGED <<hThread, pFnFunction, pParameter, onExit, unit, released>>
                /\ IsJoinable' /\ hThread' \notin released'
                /\ jops' \subseteq {"WaitObject(hThread)", "onExit.Wait"})]_vars
    /\ [][(SemaphoreWaitReturns /\ slast'.thread \in stimedOut
            /\ m_semaphore /= 0 /\ count > 0) => slast'.result /= "NotReady"]_vars
    /\ [][(EventWaitReturns /\ elast'.thread \in etimedOut
            /\ m_event /= 0 /\ eventState) => elast'.result /= "NotReady"]_vars
    /\ [][(opc = "join_wait" /\ opc' /= opc /\ hThread \in joinTimedOut /\ onExit)
            => oret' /= "NotReady"]_vars

\* A Join has timed out on a handle and a later Join on it returned Success.
C17_Witness ==
    /\ ocall.op = "Join" /\ oret = "Success" /\ hThread = 0
    /\ joinTimedOut \cap released /= {}
    /\ ~crashed

\* A step in which a call of AtomicLock::Unlock is made.
UnlockCalled == lrounds' /= lrounds

\* C18: AtomicLock::Unlock() called while the word is 0 raises the fatal
\* diagnostic and leaves the word 0; called while the word is 1 it sets the
\* word to 0 and raises no diagnostic.
C18_UnlockDiagnosesMisuse ==
    /\ [][(UnlockCalled /\ m_lock = 0) => (lockBug' /\ m_lock' = 0)]_vars
    /\ [][(UnlockCalled /\ m_lock = 1) => (m_lock' = 0 /\ lockBug' = lockBug)]_vars
    /\ [](m_lock \in {0, 1})

\* An Unlock has found the word 0, and another has released the lock of a
\* thread that is still between Lock() and Unlock().
C18_Witness ==
    /\ lockBug /\ m_lock = 0
    /\ LockHolders /= {}

\* The statuses the model lets WaitForSingleObject report.
WaitStatuses == {"WAIT_OBJECT_0", "WAIT_TIMEOUT", "WAIT_FAILED", "WAIT_ABANDONED", "unknown"}

Results == {"Success", "NotReady", "Error"}

\* C19: WaitObject returns Success exactly when the OS reports the object
\* signaled, NotReady exactly when it reports a timeout, and Error for every
\* other status (failed, abandoned, unknown); so Semaphore::Wait, Event::Wait
\* and Thread::Join return only Success, NotReady or Error.
C19_WaitObjectThreeWay ==
    /\ \A status \in WaitStatuses :
        /\ WaitObject(status) = "Success" <=> status = "WAIT_OBJECT_0"
        /\ WaitObject(status) = "NotReady" <=> status = "WAIT_TIMEOUT"
        /\ WaitObject(status) = "Error" <=> status \notin {"WAIT_OBJECT_0", "WAIT_TIMEOUT"}
    /\ lastWait.status /= "none" =>
        /\ lastWait.status \in WaitStatuses
        /\ lastWait.result = "Success" <=> lastWait.status = "WAIT_OBJECT_0"
        /\ lastWait.result = "NotReady" <=> lastWait.status = "WAIT_TIMEOUT"
        /\ lastWait.result = "Error"
            <=> lastWait.status \notin {"WAIT_OBJECT_0", "WAIT_TIMEOUT"}
    /\ slast.op = "Wait" => (slast.result \in Results /\ slast.result = WaitObject(slast.os))
    /\ elast.op = "Wait" => (elast.result \in Results /\ elast.result = WaitObject(elast.os))
    /\ (ocall.op = "Join" /\ oret /= "pending") => oret \in Results

\* A Join has returned Error because the wait on onExit reported a status
\* that is neither signaled nor timeout nor failed.
C19_Witness ==
    /\ ocall.op = "Join" /\ oret = "Error"
    /\ lastWait.status \in {"WAIT_ABANDONED", "unknown"} /\ lastWait.result = "Error"
    /\ jops = {"WaitObject(hThread)", "onExit.Wait"}

\* The OS call under a completed Event or Semaphore call failed: a NULL
\* handle or a zero BOOL, or a wait status other than signaled and timeout.
OsCallFailed(call) ==
    IF call.op = "Wait"
        THEN call.os \notin {"WAIT_OBJECT_0", "WAIT_TIMEOUT"}
        ELSE call.os = 0

\* C20: no OS failure is silently swallowed.  Whenever the OS call under
\* Event creation, Event::Signal, Event::Clear, Event::Wait, Semaphore
\* creation, Semaphore::Signal or Semaphore::Wait fails, the caller is given
\* Error; a Start whose CreateThread failed does not return Success; a Join
\* whose wait on the thread handle failed, or whose CloseHandle failed, does
\* not return Success.
C20_NoFailureSwallowed ==
    /\ OsCallFailed(elast) => elast.result = "Error"
    /\ OsCallFailed(slast) => slast.result = "Error"
    /\ (ocall.op = "Start" /\ oret = "Success") => hThread /= 0
    /\ (ocall.op = "Join" /\ oret = "Success") => lastWait.result /= "Error"
    /\ (ocall.op = "Join" /\ opc = "idle" /\ "CloseHandle" \in jops /\ "Reset" \notin jops)
        => oret = "Error"

\* A name can be converted when it holds no invalid character; its converted
\* length is then its number of characters.
Convertible(name) == \A i \in 1 .. Len(name) : name[i] /= "x"

NameAccepted(name) == Convertible(name) /\ Len(name) < kThreadNameMaxLength

\* C21 as stated: SetNameRaw returns Unavailable when the host does not
\* provide the naming function, Error when the name cannot be converted or its
\* converted length is not below kThreadNameMaxLength, and Success otherwise;
\* at most kThreadNameMaxLength characters are written to the buffer.
C21_SuccessOtherwise ==
    nlast.op = "SetNameRaw" =>
        /\ nlast.result = "Unavailable" <=> naming /= "yes"
        /\ nlast.result = "Error" <=> (naming = "yes" /\ ~NameAccepted(nlast.name))
        /\ nlast.result = "Success" <=> (naming = "yes" /\ NameAccepted(nlast.name))
        /\ nlast.written <= kThreadNameMaxLength

\* C21, amended: SetNameRaw returns Unavailable when the host does not provide
\* the naming function; otherwise Error when the name cannot be converted,
\* when its converted length is not below kThreadNameMaxLength (the name is
\* rejected without calling the OS), or when SetThreadDescription fails, and
\* Success when SetThreadDescription succeeds.  At most kThreadNameMaxLength
\* characters are written to the buffer, and fewer for an accepted name.
C21_SetNameRawResult ==
    nlast.op = "SetNameRaw" =>
        /\ nlast.result \in {"Unavailable", "Error", "Success"}
        /\ nlast.result = "Unavailable" <=> naming /= "yes"
        /\ nlast.result = "Error"
            <=> (naming = "yes" /\ (~NameAccepted(nlast.name) \/ ~SUCCEEDED(nlast.hResult)))
        /\ nlast.result = "Success"
            <=> (naming = "yes" /\ NameAccepted(nlast.name) /\ SUCCEEDED(nlast.hResult))
        /\ (naming = "yes" /\ ~NameAccepted(nlast.name)) => nlast.hResult = "E_FAIL"
        /\ (naming = "yes" /\ NameAccepted(nlast.name))
            => (nlast.hResult \in {"S_OK", "E_HANDLE"} /\ nlast.written = Len(nlast.name))
        /\ nlast.written <= kThreadNameMaxLength

\* SetNameRaw on a Thread that is not started: the name is accepted and
\* SetThreadDescription fails on the NULL handle.
C21_Witness ==
    /\ nlast.op = "SetNameRaw" /\ nlast.result = "Error"
    /\ NameAccepted(nlast.name) /\ Len(nlast.name) > 0
    /\ nlast.hResult = "E_HANDLE"
    /\ hThread = 0 /\ ncalls = 0

\* A step in which thread t, having entered the critical section it already
\* owned, passes the debug check of Mutex::Lock.
RecursiveLockCounted(t) ==
    mpc[t] = "lock_count" /\ mpc'[t] = "held" /\ csRecursion >= 2

\* C22: recursion is detected in debug builds.  A Lock() by the thread that
\* already holds the mutex enters the critical section; the ownership counter
\* then reaches the nesting depth, 2 for a second Lock(), the count read is
\* not 1 and the assertion count == 1 fires.  No thread holds the mutex twice
\* without the assertion having fired.
C22_RecursionDetected ==
    /\ [][\A t \in MutexThreads :
            RecursiveLockCounted(t)
                => (/\ csOwner = t
                    /\ lockCount' = csRecursion /\ mcount'[t] = csRecursion
                    /\ mcount'[t] /= 1
                    /\ mutexAssert')]_vars
    /\ [](\A t \in MutexThreads :
            (mpc[t] = "held" /\ csRecursion >= 2) => (mutexAssert /\ lockCount >= 2))

\* A thread has locked the mutex twice: the counter is 2, the assertion has
\* fired, and another thread is blocked in Lock().
C22_Witness ==
    \E t, u \in MutexThreads :
        /\ mpc[t] = "held" /\ csOwner = t /\ csRecursion = 2
        /\ lockCount = 2 /\ mcount[t] = 2 /\ mutexAssert
        /\ mpc[u] = "lock_enter" /\ u /= t

\* Join(infinite) is between its IsJoinable() test and the end of its wait.
JoinInfiniteWaiting ==
    /\ ocall.op = "Join" /\ ocall.timeout = "infinite"
    /\ opc \in {"join_alive", "join_wait"}

\* C23: no missed completion in Join's dual check.  Once the unit of a
\* started Thread has terminated, by the return of the entry function or
\* externally, whether before Join, between the handle check and the wait on
\* onExit, or during that wait, a Join with the infinite timeout eventually
\* returns Success; and a handle check that finds the unit terminated goes on
\* to CloseHandle without waiting on onExit.
C23_NoMissedCompletion ==
    /\ (JoinInfiniteWaiting /\ Terminated(hThread))
            ~> (ocall.op = "Join" /\ opc = "idle" /\ oret = "Success")
    /\ [][(opc = "join_alive" /\ Terminated(hThread)) => opc' \in {"join_alive", "join_close"}]_vars

\* Join(infinite) waits on onExit for a unit that was terminated externally
\* after the handle check: the event is not signaled and no unit is left to
\* signal it.
C23_Witness ==
    /\ JoinInfiniteWaiting /\ opc = "join_wait"
    /\ Terminated(hThread) /\ ~onExit
    /\ invoked[hThread] = startArgs[hThread]

\* The handle returned to the most recent successful Start (handles are
\* numbered in the order CreateThread returns them); 0 before the first.
LastStarted == Cardinality(Created)

\* The entry function run by unit h has returned, or unit h has terminated.
RunCompleted(h) == unit[h] \in {"returned", "signaled", "terminated"}

\* A step in which Thread::Join returns Success.
JoinReturnsSuccess ==
    ocall.op = "Join" /\ opc /= "idle" /\ opc' = "idle" /\ oret' = "Success"

Difference64(a, b) ==
    LET borrow == IF ULess32(a.lo, b.lo) THEN 1 ELSE 0
    IN [hi |-> Difference32(Difference32(a.hi, b.hi), borrow),
        lo |-> Difference32(a.lo, b.lo)]

InLock(t) == lpc[t] \in {"lock_cas", "lock_spin"}

\* C26: AtomicLock::Lock has no timeout and no fairness.  There are
\* executions of two or more contending threads, weakly fair for every
\* thread and with every holder unlocking, in which one thread stays inside
\* Lock() forever and keeps evaluating its loop conditions while the other
\* threads acquire and release the lock again and again: every behaviour of
\* SpecLockStarve is such an execution of SpecLockFair.
C26_Starvation ==
    /\ [][NextLockForever]_vars
    /\ \A t \in LockThreads : WF_vars(LockStep(t))
    /\ [][InLock(Starved) => InLock(Starved)']_vars
    /\ [](lpc[Starved] \notin {"locked", "inside", "unlock"})
    /\ ([]<>(~InLock(Starved)) \/ []<><<LockStep(Starved)>>_vars)
    /\ []<><<\E t \in LockThreads \ {Starved} :
                AtomicLock_Lock(t) /\ lpc'[t] = "locked">>_vars
    /\ []<><<\E t \in LockThreads \ {Starved} : AtomicLock_Unlock(t)>>_vars

\* Thread Starved is spinning inside Lock() while every other thread has
\* completed all its counted rounds and one of them holds the lock again.
C26_Witness ==
    /\ lpc[Starved] = "lock_spin"
    /\ \A t \in LockThreads \ {Starved} : lrounds[t] = MaxLockRounds
    /\ \E t \in LockThreads \ {Starved} : lpc[t] = "inside"

====
